---- MODULE Spec2Model ----
(***************************************************************************)
(* Open-Interest monitoring core of coinalertbot:                          *)
(*   - polling detection (MonitoringService.monitor_user,                  *)
(*     check_open_interest_changes, detect_liquidations_from_oi),          *)
(*   - the streaming callback (_on_websocket_oi_update),                   *)
(*   - the snapshot store lookups (Database.get_latest_oi),                *)
(*   - the streaming ingestor's reconnect loop (BinanceWebSocket),         *)
(*   - the dispatcher and the monitoring loop (AlertService).              *)
(*                                                                         *)
(* Conventions.  Time is counted in whole minutes of UTC (the host clock   *)
(* is taken to be UTC).  Open-interest values and thresholds are integers; *)
(* Python's float expression ((cur - prev) / prev) * 100 compared with a   *)
(* threshold t is evaluated exactly, by cross-multiplication with prev > 0.*)
(* A coin's symbol stands for both the catalog symbol and the exchange     *)
(* symbol (symbol + "USDT"); the exchange is always 'binance'.             *)
(***************************************************************************)
EXTENDS Integers, Sequences, FiniteSets, TLC

VARIABLES
    \* ---- polling detection / streaming callback (one subscriber) ----
    now,                \* wall clock, minutes
    history,            \* open_interest_history rows
    settings,           \* the subscriber's stored settings (a partial mapping)
    coins,              \* filtered_coins[:max_coins]
    available_symbols,  \* BinanceAPI.get_available_symbols()
    pc,                 \* position inside monitor_user
    idx,                \* loop index over coins
    all_alerts,         \* monitor_user's all_alerts
    returned,           \* what monitor_user returned (meaningful once pc = "done")
    alerts_table,       \* rows written by create_alert
    evaluated,          \* history variable: what the running detector did with each coin
    faults,             \* exceptions injected in the current cycle
    wsCount,            \* streaming callbacks processed
    wsAlerts,           \* alerts built by the last streaming callback
    dispatched,         \* batches the callback handed to send_alerts_batch
    \* ---- streaming ingestor (BinanceWebSocket) ----
    running,            \* BinanceWebSocket.running
    reconnect_delay,    \* BinanceWebSocket.reconnect_delay, seconds
    websocket,          \* BinanceWebSocket.websocket: None, "open" or "closed"
    wsPc,               \* position of the _maintain_connection task
    consecutive,        \* history variable: failures since the last successful connect
    waits,              \* history variable: the reconnect waits so far
    subscribed_symbols, \* BinanceWebSocket.subscribed_symbols
    tasks,              \* the _maintain_connection tasks created by start
    wsRef,              \* the task whose connection self.websocket refers to, 0 for None
    updPc,              \* position of a running update_symbols call
    updArg,             \* the argument of the latest update_symbols call
    lastCall,           \* history variable: the latest call of start, stop or update_symbols
    apiCalls,           \* calls of start and update_symbols so far
    oi_cache,           \* BinanceWebSocket.oi_cache
    callbacks,          \* history variable: on_oi_update calls scheduled
    lastMsg,            \* history variable: the latest inbound message and the cache before it
    recorded,           \* snapshots the streaming path saved to the store
    \* ---- dispatcher and monitoring loop (AlertService) ----
    users,              \* rows of get_monitoring_users()
    userAlerts,         \* what monitor_user returns for each user of the cycle
    loopPc,             \* position of monitoring_loop
    userIdx,            \* loop index over api_users
    websocket_active,   \* MonitoringService.websocket_active
    batch,              \* the alerts send_alerts_batch is working on
    batchPos,           \* the next grouped message of the batch
    sent,               \* history variable: send_message calls of the current cycle
    processed,          \* history variable: users handled in the current cycle
    cycleNo,            \* cycles begun
    is_running,         \* AlertService.is_running
    db_users,           \* the users table: rows with is_monitoring = 1
    ws_symbols,         \* symbols the shared ingestor was started with
    raised,             \* history variable: cycles ended by the handler of line 162
    changes,            \* changes made to the users table
    \* ---- catalog cache (CacheService) ----
    cmc_cache,          \* the cmc_cache row: NoCache or the coins and last_updated
    cacheClock,         \* wall clock of the cache, minutes
    lastGet,            \* history variable: the latest get_coins_data call
    \* ---- input validation (InputValidator) ----
    sanIn,              \* the argument of sanitize_symbol
    sanOut,             \* sanitize_symbol(sanIn), once computed
    sanAgain,           \* sanitize_symbol(sanOut), once computed
    \* ---- process (main) ----
    mainPc,             \* position of main()
    \* ---- current-value fetch (BinanceAPI.get_open_interest) ----
    fetchLog,           \* history variable: per instrument of a cycle, the requests made
    \* ---- request rate limiting (RateLimiter) ----
    rlCalls,            \* RateLimiter.calls: key -> recorded call times
    rlClock,            \* time.time(), in ticks
    rlGranted,          \* history variable: key -> times of the calls granted since its last reset
    rlLast              \* history variable: the latest is_allowed or reset call

cacheVars  == <<cmc_cache, cacheClock, lastGet>>
sanVars    == <<sanIn, sanOut, sanAgain>>
mainVars   == <<mainPc>>
fetchVars  == <<fetchLog>>
rlVars     == <<rlCalls, rlClock, rlGranted, rlLast>>
svcVars    == <<cacheVars, sanVars, mainVars, fetchVars, rlVars>>
pollVars   == <<now, history, settings, coins, available_symbols, pc, idx,
                all_alerts, returned, alerts_table, evaluated, faults, wsCount,
                wsAlerts, dispatched>>
detectVars == <<pollVars, svcVars>>
apiVars    == <<subscribed_symbols, tasks, wsRef, updPc, updArg, lastCall, apiCalls>>
msgVars    == <<oi_cache, callbacks, lastMsg, recorded>>
wsVars     == <<running, reconnect_delay, websocket, wsPc, consecutive, waits,
                apiVars, msgVars>>
loopVars   == <<users, userAlerts, loopPc, userIdx, websocket_active, batch,
                batchPos, sent, processed, cycleNo, is_running, db_users,
                ws_symbols, raised, changes>>
vars       == <<detectVars, wsVars, loopVars>>

None == "None"          \* a missing string
NoValue == -1           \* a missing number (Python None)
\* a missing row (Python None), and a lookup that was never made
NoRow  == [symbol |-> "None", open_interest |-> NoValue, timestamp |-> NoValue]
NotRun == [symbol |-> "NotRun", open_interest |-> NoValue, timestamp |-> NoValue]

Abs(x) == IF x < 0 THEN -x ELSE x

Min(a, b) == IF a < b THEN a ELSE b

RECURSIVE Pow2(_)
Pow2(n) == IF n = 0 THEN 1 ELSE 2 * Pow2(n - 1)

\* dict.get(key, default) on a partial mapping
Get(d, key, default) == IF key \in DOMAIN d THEN d[key] ELSE default

RECURSIVE SeqConcat(_)
SeqConcat(ss) == IF ss = <<>> THEN <<>> ELSE Head(ss) \o SeqConcat(Tail(ss))

(***************************************************************************)
(* Bounds of the model                                                     *)
(***************************************************************************)
MaxCoins   == 2     \* instruments per detection cycle
MaxFaults  == 1     \* exceptions injected per cycle
MaxUpdates == 2     \* streaming callbacks
MaxWaits   == 6     \* reconnect waits of one ingestor
MaxGroup   == 12    \* events of one group in a batch
MaxUsers   == 3     \* monitoring users
MaxLoopCycles == 2  \* cycles of monitoring_loop
MaxUserChanges == 2 \* changes of the users table
MaxMessages == 2    \* inbound messages processed by one ingestor
MaxCalls   == 2     \* calls of start and update_symbols on one ingestor
MaxCacheTicks == 4  \* half hours of the catalog cache's clock
MaxSanLen  == 3     \* characters of a short argument of sanitize_symbol
MaxFetches == 3     \* instruments whose current value a cycle fetches
MaxRlOps   == 5     \* is_allowed and reset calls on one RateLimiter
MaxRlTicks == 4     \* ticks of the RateLimiter's clock

Symbols    == <<"AAA", "BBB", "CCC", "DDD">>
CurValues  == {92000, 100000}           \* values the exchange returns
LastValues == {0, 107000, 120000}       \* values of the most recent snapshot
MinutesPerDay == 24 * 60

(***************************************************************************)
(* Program constants                                                       *)
(***************************************************************************)
Tolerance        == 2       \* get_latest_oi: +-2 minutes
VolumeMultiplier == 50000   \* estimated_volume = |delta| * 50000
PollHighAbove    == 15      \* polling: 'high' if abs(change_percent) > 15
StreamHighAbove  == 10      \* streaming: 'high' if abs(change_percent) > 10
Interval         == 5       \* monitoring_loop(interval=300), in minutes
MaxLines         == 10      \* send_alerts_batch: tf_alerts[:10]
max_symbols      == 200     \* BinanceWebSocket.max_symbols
MaxSymbolLen     == 20      \* start: len(sanitized) <= 20
BaseDelay        == 5       \* BinanceWebSocket.reconnect_delay, seconds
max_reconnect_delay == 60   \* BinanceWebSocket.max_reconnect_delay, seconds
CACHE_TTL        == 60      \* config.CACHE_TTL: 3600 seconds, in minutes

\* timeframes of check_open_interest_changes: name, minutes, settings key, default
timeframes == << [name |-> "15min", minutes |-> 15, key |-> "oi_threshold_15min", default |-> 2],
                 [name |-> "30min", minutes |-> 30, key |-> "oi_threshold_30min", default |-> 3],
                 [name |-> "1hour", minutes |-> 60, key |-> "oi_threshold_1hour", default |-> 5] >>

DEFAULT_USER_SETTINGS ==
    [ oi_threshold_15min |-> 2, oi_threshold_30min |-> 3, oi_threshold_1hour |-> 5,
      liquidation_oi_threshold |-> 8, monitoring_mode |-> "api",
      enable_oi_alerts |-> TRUE, enable_liquidation_detection |-> TRUE ]

\* stored settings the model starts from
SettingsChoices ==
    { DEFAULT_USER_SETTINGS,
      [ oi_threshold_15min |-> 5, oi_threshold_30min |-> 5, oi_threshold_1hour |-> 5,
        liquidation_oi_threshold |-> 5, monitoring_mode |-> "api",
        enable_oi_alerts |-> TRUE, enable_liquidation_detection |-> TRUE ],
      [ oi_threshold_15min |-> 6, oi_threshold_30min |-> 6, oi_threshold_1hour |-> 6,
        liquidation_oi_threshold |-> 5, monitoring_mode |-> "api",
        enable_oi_alerts |-> FALSE, enable_liquidation_detection |-> TRUE ],
      [ oi_threshold_15min |-> 6, oi_threshold_30min |-> 6, oi_threshold_1hour |-> 6,
        monitoring_mode |-> "api",
        enable_oi_alerts |-> TRUE, enable_liquidation_detection |-> FALSE ],
      [ DEFAULT_USER_SETTINGS EXCEPT !.monitoring_mode = "websocket" ],
      [ monitoring_mode |-> "websocket", oi_threshold |-> 5 ] }

(***************************************************************************)
(* Snapshot store: Database.save_oi_history / Database.get_latest_oi       *)
(***************************************************************************)
\* a row of open_interest_history
Snapshot(symbol, oi, ts) == [symbol |-> symbol, open_interest |-> oi, timestamp |-> ts]

\* variant: one row per symbol, replaced by the insert
save_oi_history_Replaces(h, row) == {r \in h : r.symbol # row.symbol} \cup {row}

\* save_oi_history: INSERT of one row
save_oi_history(h, row) == h \cup {row}

\* The timestamp column holds datetime.isoformat() text, 'YYYY-MM-DDTHH:MM:SS',
\* while SQLite's datetime() yields 'YYYY-MM-DD HH:MM:SS'.  Both are compared
\* as text: the date, then the separator character, then the time of day.
SepT     == 84      \* ord('T')
SepSpace == 32      \* ord(' ')
IsoText(ts) == <<ts \div MinutesPerDay, SepT, ts % MinutesPerDay>>
SqlText(ts) == <<ts \div MinutesPerDay, SepSpace, ts % MinutesPerDay>>
TextLE(a, b) ==
    \/ a[1] < b[1]
    \/ a[1] = b[1] /\ a[2] < b[2]
    \/ a[1] = b[1] /\ a[2] = b[2] /\ a[3] <= b[3]

\* get_latest_oi: the set of rows the query may return (empty set: None).
\* minutes_ago = 0: ORDER BY timestamp DESC LIMIT 1
\* otherwise: timestamp BETWEEN (t - 2 min) AND (t + 2 min), ORDER BY ABS(distance) LIMIT 1
get_latest_oi(h, clock, symbol, minutes_ago) ==
    LET rows == {r \in h : r.symbol = symbol} IN
    IF minutes_ago = 0
    THEN {r \in rows : \A q \in rows : TextLE(IsoText(q.timestamp), IsoText(r.timestamp))}
    ELSE LET target == clock - minutes_ago
             inWindow == {r \in rows :
                            /\ TextLE(SqlText(target - Tolerance), IsoText(r.timestamp))
                            /\ TextLE(IsoText(r.timestamp), SqlText(target + Tolerance))}
         IN {r \in inWindow : \A q \in inWindow :
                Abs(r.timestamp - target) <= Abs(q.timestamp - target)}

\* the results a lookup can produce: a row, or None
LookupResults(h, clock, symbol, minutes_ago) ==
    LET rows == get_latest_oi(h, clock, symbol, minutes_ago) IN
    IF rows = {} THEN {NoRow} ELSE rows

(***************************************************************************)
(* Detection arithmetic                                                    *)
(***************************************************************************)
\* variant: the comparison without abs()
AbsChangeAtLeast_Signed(current, previous, threshold) ==
    (current - previous) * 100 >= threshold * previous

\* abs(change_percent) >= threshold, for previous > 0
AbsChangeAtLeast(current, previous, threshold) ==
    Abs(current - previous) * 100 >= threshold * previous

\* abs(change_percent) > limit, for previous > 0
AbsChangeAbove(current, previous, limit) ==
    Abs(current - previous) * 100 > limit * previous

\* variant: the magnitude compared, whatever the direction
DropAtLeast_AnyDirection(current, previous, threshold) ==
    Abs(current - previous) * 100 >= threshold * previous

\* change_percent <= -threshold, for previous > 0
DropAtLeast(current, previous, threshold) ==
    (current - previous) * 100 <= (0 - threshold) * previous

Event(type, symbol, timeframe, direction, side, confidence, current, previous, threshold) ==
    [ type |-> type, symbol |-> symbol, timeframe |-> timeframe,
      direction |-> direction, side |-> side, confidence |-> confidence,
      current_value |-> current, previous_value |-> previous,
      threshold |-> threshold,
      estimated_volume |-> IF type = "estimated_liquidation"
                           THEN Abs(previous - current) * VolumeMultiplier ELSE 0 ]

\* check_open_interest_changes, lines 83-97: the events of one timeframe
ChangeEvents(symbol, tf, current, previous, threshold) ==
    IF previous # NoRow /\ previous.open_interest > 0
       /\ AbsChangeAtLeast(current, previous.open_interest, threshold)
    THEN << Event("open_interest", symbol, tf,
                  IF current > previous.open_interest THEN "increase" ELSE "decrease",
                  None, None, current, previous.open_interest, threshold) >>
    ELSE << >>

\* variant: 'high' above 5 percent
PollConfidence_LowLimit(current, previous) ==
    IF AbsChangeAbove(current, previous, 5) THEN "high" ELSE "medium"

\* detect_liquidations_from_oi, line 157
PollConfidence(current, previous) ==
    IF AbsChangeAbove(current, previous, PollHighAbove) THEN "high" ELSE "medium"

\* _on_websocket_oi_update, line 249
StreamConfidence(current, previous) ==
    IF AbsChangeAbove(current, previous, StreamHighAbove) THEN "high" ELSE "medium"

\* detect_liquidations_from_oi, lines 142-159: the events of one instrument
LiquidationEvents(symbol, current, previous, threshold) ==
    IF previous # NoRow /\ previous.open_interest > 0
       /\ DropAtLeast(current, previous.open_interest, threshold)
    THEN << Event("estimated_liquidation", symbol, None, None, "long",
                  PollConfidence(current, previous.open_interest),
                  current, previous.open_interest, threshold) >>
    ELSE << >>

(***************************************************************************)
(* Polling detection: MonitoringService.monitor_user                       *)
(***************************************************************************)
Threshold(j) == Get(settings, timeframes[j].key, timeframes[j].default)

\* what the loop body did with one coin (history variable)
Outcome(phase, symbol, outcome, current, lookups) ==
    [phase |-> phase, symbol |-> symbol, outcome |-> outcome,
     current |-> current, lookups |-> lookups]

\* variant: an exception leaves the loop
AfterCoin_AbortOnError(i, outcome) ==
    IF outcome = "error" THEN Len(coins) + 1 ELSE i + 1

\* the position of the for loop after one coin: every way out of the loop body
\* (continue, the end of the body, the except clause) goes on to the next coin
AfterCoin(i, outcome) == i + 1

\* monitor_user, lines 276-286: filter, then enter the first enabled detector
MonitorUserStart ==
    /\ pc = "idle"
    /\ Get(settings, "monitoring_mode", None) # "websocket"
    /\ IF coins = << >>
       THEN /\ pc' = "done"
            /\ returned' = << >>
       ELSE /\ pc' = IF Get(settings, "enable_oi_alerts", TRUE) THEN "check_oi"
                     ELSE IF Get(settings, "enable_liquidation_detection", TRUE)
                          THEN "detect_liq" ELSE "audit"
            /\ UNCHANGED returned
    /\ idx' = 1
    /\ UNCHANGED <<now, history, settings, coins, available_symbols, all_alerts,
                   alerts_table, evaluated, faults, wsCount, wsAlerts, dispatched>>
    /\ UNCHANGED <<wsVars, loopVars, svcVars>>

\* check_open_interest_changes, lines 50-104: one iteration of the loop
CheckOiCoin ==
    /\ pc = "check_oi"
    /\ idx <= Len(coins)
    /\ LET symbol == coins[idx] IN
       \/ \* line 57: the instrument is not tradable
          /\ symbol \notin available_symbols
          /\ evaluated' = Append(evaluated,
                 Outcome("oi", symbol, "unavailable", NoValue, <<NotRun, NotRun, NotRun>>))
          /\ UNCHANGED <<history, all_alerts, faults>>
       \/ \* line 64: the fetch returned nothing
          /\ symbol \in available_symbols
          /\ evaluated' = Append(evaluated,
                 Outcome("oi", symbol, "none", NoValue, <<NotRun, NotRun, NotRun>>))
          /\ UNCHANGED <<history, all_alerts, faults>>
       \/ \* line 69: save_oi_history raises
          /\ symbol \in available_symbols
          /\ faults < MaxFaults
          /\ faults' = faults + 1
          /\ evaluated' = Append(evaluated,
                 Outcome("oi", symbol, "error", NoValue, <<NotRun, NotRun, NotRun>>))
          /\ UNCHANGED <<history, all_alerts>>
       \/ \* lines 69-98: snapshot saved, timeframes evaluated in order;
          \* failAt = j <= 3: the lookup of timeframe j raises
          /\ symbol \in available_symbols
          /\ \E current \in CurValues, failAt \in 1..(Len(timeframes) + 1) :
             LET saved == save_oi_history(history, Snapshot(symbol, current, now)) IN
             \E found \in LookupResults(saved, now, symbol, timeframes[1].minutes)
                           \X LookupResults(saved, now, symbol, timeframes[2].minutes)
                           \X LookupResults(saved, now, symbol, timeframes[3].minutes) :
                /\ failAt <= Len(timeframes) => faults < MaxFaults
                /\ faults' = IF failAt <= Len(timeframes) THEN faults + 1 ELSE faults
                /\ history' = saved
                /\ all_alerts' = all_alerts \o SeqConcat(
                      [j \in 1..Len(timeframes) |->
                          IF j < failAt
                          THEN ChangeEvents(symbol, timeframes[j].name, current,
                                            found[j], Threshold(j))
                          ELSE << >>])
                /\ evaluated' = Append(evaluated,
                      Outcome("oi", symbol,
                              IF failAt <= Len(timeframes) THEN "error" ELSE "ok",
                              current,
                              [j \in 1..Len(timeframes) |->
                                  IF j < failAt THEN found[j] ELSE NotRun]))
    /\ idx' = AfterCoin(idx, evaluated'[Len(evaluated')].outcome)
    /\ UNCHANGED <<now, settings, coins, available_symbols, pc, returned,
                   alerts_table, wsCount, wsAlerts, dispatched>>
    /\ UNCHANGED <<wsVars, loopVars, svcVars>>

\* check_open_interest_changes returns; monitor_user lines 291-293
CheckOiReturn ==
    /\ pc = "check_oi"
    /\ idx > Len(coins)
    /\ pc' = IF Get(settings, "enable_liquidation_detection", TRUE)
             THEN "detect_liq" ELSE "audit"
    /\ idx' = 1
    /\ evaluated' = << >>
    /\ UNCHANGED <<now, history, settings, coins, available_symbols, all_alerts,
                   returned, alerts_table, faults, wsCount, wsAlerts,
                   dispatched>>
    /\ UNCHANGED <<wsVars, loopVars, svcVars>>

\* detect_liquidations_from_oi, lines 123-167: one iteration of the loop
DetectLiqCoin ==
    /\ pc = "detect_liq"
    /\ idx <= Len(coins)
    /\ LET symbol == coins[idx]
           oi_drop_threshold == Get(settings, "liquidation_oi_threshold", 8)
       IN
       \/ \* line 130
          /\ symbol \notin available_symbols
          /\ evaluated' = Append(evaluated,
                 Outcome("liq", symbol, "unavailable", NoValue, <<NotRun>>))
          /\ UNCHANGED <<all_alerts, faults>>
       \/ \* line 136
          /\ symbol \in available_symbols
          /\ evaluated' = Append(evaluated,
                 Outcome("liq", symbol, "none", NoValue, <<NotRun>>))
          /\ UNCHANGED <<all_alerts, faults>>
       \/ \* line 140: get_latest_oi raises
          /\ symbol \in available_symbols
          /\ faults < MaxFaults
          /\ faults' = faults + 1
          /\ evaluated' = Append(evaluated,
                 Outcome("liq", symbol, "error", NoValue, <<NotRun>>))
          /\ UNCHANGED all_alerts
       \/ \* lines 140-159
          /\ symbol \in available_symbols
          /\ \E current \in CurValues :
             \E previous \in LookupResults(history, now, symbol, 0) :
                /\ all_alerts' = all_alerts \o
                      LiquidationEvents(symbol, current, previous, oi_drop_threshold)
                /\ evaluated' = Append(evaluated,
                      Outcome("liq", symbol, "ok", current, <<previous>>))
          /\ UNCHANGED faults
    /\ idx' = AfterCoin(idx, evaluated'[Len(evaluated')].outcome)
    /\ UNCHANGED <<now, history, settings, coins, available_symbols, pc, returned,
                   alerts_table, wsCount, wsAlerts, dispatched>>
    /\ UNCHANGED <<wsVars, loopVars, svcVars>>

\* detect_liquidations_from_oi returns; monitor_user line 299
DetectLiqReturn ==
    /\ pc = "detect_liq"
    /\ idx > Len(coins)
    /\ pc' = "audit"
    /\ UNCHANGED <<now, history, settings, coins, available_symbols, idx,
                   all_alerts, returned, alerts_table, evaluated, faults, wsCount,
                   wsAlerts, dispatched>>
    /\ UNCHANGED <<wsVars, loopVars, svcVars>>

\* monitor_user, lines 301-317: create_alert per event (the n-th may raise,
\* which the handler catches), then return all_alerts
MonitorUserReturn ==
    /\ pc = "audit"
    /\ \E n \in 0..Len(all_alerts) :
          /\ n < Len(all_alerts) => faults < MaxFaults
          /\ faults' = IF n < Len(all_alerts) THEN faults + 1 ELSE faults
          /\ alerts_table' = alerts_table \o SubSeq(all_alerts, 1, n)
    /\ returned' = all_alerts
    /\ pc' = "done"
    /\ UNCHANGED <<now, history, settings, coins, available_symbols, idx,
                   all_alerts, evaluated, wsCount, wsAlerts, dispatched>>
    /\ UNCHANGED <<wsVars, loopVars, svcVars>>

(***************************************************************************)
(* Streaming callback: MonitoringService._on_websocket_oi_update           *)
(***************************************************************************)
\* (previous_oi, current_oi) pairs the ingestor surfaces
StreamUpdates == { <<107000, 100000>>, <<100000, 92000>>, <<107000, 92000>>,
                   <<120000, 92000>>, <<95000, 100000>> }

\* BinanceWebSocket._process_message, lines 178-190: what reaches the callback
Surfaced(previous_oi, current_oi) ==
    /\ current_oi > 0
    /\ previous_oi > 0
    /\ Abs(current_oi - previous_oi) * 1000 >= previous_oi

\* lines 226-253: the alerts built for one subscriber
StreamAlerts(symbol, current_oi, previous_oi) ==
    LET oi_threshold  == Get(settings, "oi_threshold", 1)
        liq_threshold == Get(settings, "liquidation_oi_threshold", 5)
    IN  (IF Get(settings, "enable_oi_alerts", TRUE)
            /\ AbsChangeAtLeast(current_oi, previous_oi, oi_threshold)
         THEN << Event("open_interest", symbol, None,
                       IF current_oi > previous_oi THEN "increase" ELSE "decrease",
                       None, None, current_oi, previous_oi, oi_threshold) >>
         ELSE << >>)
        \o
        (IF Get(settings, "enable_liquidation_detection", TRUE)
            /\ DropAtLeast(current_oi, previous_oi, liq_threshold)
         THEN << Event("estimated_liquidation", symbol, None, None, "long",
                       StreamConfidence(current_oi, previous_oi),
                       current_oi, previous_oi, liq_threshold) >>
         ELSE << >>)

\* the whole callback for one update: save the snapshot (a failure is caught),
\* build the subscriber's alerts, create_alert each (a failure ends the task),
\* hand the batch to send_alerts_batch
OnWebsocketOiUpdate ==
    /\ pc = "idle"
    /\ Get(settings, "monitoring_mode", None) = "websocket"      \* line 219
    /\ coins # << >>
    /\ wsCount < MaxUpdates
    /\ wsCount' = wsCount + 1
    /\ \E u \in StreamUpdates, saveFails \in BOOLEAN :
       LET symbol  == coins[1]
           alerts  == StreamAlerts(symbol, u[2], u[1])
       IN
       /\ Surfaced(u[1], u[2])
       /\ \E n \in 0..Len(alerts) :
             /\ (saveFails \/ n < Len(alerts)) => faults < MaxFaults
             /\ ~(saveFails /\ n < Len(alerts))
             /\ faults' = IF saveFails \/ n < Len(alerts) THEN faults + 1 ELSE faults
             /\ history' = IF saveFails THEN history
                           ELSE save_oi_history(history, Snapshot(symbol, u[2], now))
             /\ alerts_table' = alerts_table \o SubSeq(alerts, 1, n)
             /\ wsAlerts' = alerts
             /\ dispatched' = IF alerts # << >> /\ n = Len(alerts)
                              THEN Append(dispatched, alerts) ELSE dispatched
    /\ UNCHANGED <<now, settings, coins, available_symbols, pc, idx, all_alerts,
                   returned, evaluated>>
    /\ UNCHANGED <<wsVars, loopVars, svcVars>>

(***************************************************************************)
(* Specification of the detection paths                                    *)
(***************************************************************************)
NowChoices == { MinutesPerDay \div 2, MinutesPerDay + 14, MinutesPerDay + 59 }
NoOld      == <<0, 0>>
\* (age in minutes, value) of the older snapshot
OldChoices == { NoOld, <<15, 95000>>, <<60, 107000>> }

\* the store as earlier cycles left it: per symbol at most one older snapshot
\* and at most one snapshot of the previous cycle
InitHistory(clock, old, last) ==
    UNION { (IF old = NoOld THEN {} ELSE {Snapshot(Symbols[k], old[2], clock - old[1])})
            \cup
            (IF last = NoValue THEN {} ELSE {Snapshot(Symbols[k], last, clock - Interval)})
          : k \in 1..Len(Symbols) }

\* no call of start, stop or update_symbols yet
NoCall == [op |-> "none", via |-> "none", arg |-> << >>, raised |-> FALSE,
           before |-> [running |-> FALSE, subscribed_symbols |-> << >>, tasks |-> 0]]

\* no inbound message yet
NoMessage == [msg |-> [kind |-> "none"], cache |-> {}, callbacks |-> 0, n |-> 0,
              pc |-> "none"]

\* BinanceWebSocket.__init__, lines 22-25, with no call made
InitIdleApi ==
    /\ subscribed_symbols = << >> /\ tasks = << >> /\ wsRef = 0
    /\ updPc = "idle" /\ updArg = << >> /\ lastCall = NoCall /\ apiCalls = 0

\* an absent cmc_cache row, and no get_coins_data call yet
NoCache == [coins |-> << >>, last_updated |-> NoValue]
NoGet   == [n |-> 0, force_refresh |-> FALSE, outcome |-> [kind |-> "none", coins |-> << >>],
            fetched |-> FALSE, before |-> NoCache, result |-> << >>]

InitIdleCache ==
    /\ cmc_cache = NoCache /\ cacheClock = 0 /\ lastGet = NoGet

\* Python None in the place of a symbol, and a result not computed yet
NoSymbol   == <<"None">>
NotApplied == <<"NotApplied">>

InitIdleSan ==
    /\ sanIn = NoSymbol /\ sanOut = NotApplied /\ sanAgain = NotApplied

InitIdleMain == mainPc = "none"

InitIdleFetch == fetchLog = << >>

\* RateLimiter.__init__: no key has a record; no call made yet
RlKeys == {"user1", "user2"}
NoRlCall == [n |-> 0, op |-> "none", key |-> "none", granted |-> FALSE, now |-> 0,
             before |-> << >>, after_reset |-> FALSE]

InitIdleRl ==
    /\ rlCalls = << >> /\ rlClock = 0 /\ rlLast = NoRlCall
    /\ rlGranted = [k \in RlKeys |-> << >>]

InitIdleSvc == InitIdleCache /\ InitIdleSan /\ InitIdleMain /\ InitIdleFetch /\ InitIdleRl

InitIdleMsg ==
    /\ oi_cache = {} /\ callbacks = 0 /\ lastMsg = NoMessage /\ recorded = {}

InitIdleWs ==
    /\ running = FALSE /\ reconnect_delay = BaseDelay /\ websocket = None
    /\ wsPc = "none" /\ consecutive = 0 /\ waits = << >>
    /\ InitIdleApi /\ InitIdleMsg

InitIdleLoop ==
    /\ users = << >> /\ userAlerts = << >> /\ loopPc = "none" /\ userIdx = 0
    /\ websocket_active = FALSE /\ batch = << >> /\ batchPos = 0
    /\ sent = << >> /\ processed = << >> /\ cycleNo = 0
    /\ is_running = FALSE /\ db_users = << >> /\ ws_symbols = {}
    /\ raised = {} /\ changes = 0

InitDetect ==
    /\ now \in NowChoices
    /\ settings \in SettingsChoices
    /\ coins \in { SubSeq(Symbols, 1, n) : n \in {0, MaxCoins} }
    /\ available_symbols \in { {coins[k] : k \in 1..Len(coins)},
                               {coins[k] : k \in 2..Len(coins)} }
    /\ \E old \in OldChoices, last \in {NoValue} \cup LastValues :
          history = InitHistory(now, old, last)
    /\ pc = "idle" /\ idx = 1 /\ all_alerts = << >> /\ returned = << >>
    /\ alerts_table = << >> /\ evaluated = << >> /\ faults = 0
    /\ wsCount = 0 /\ wsAlerts = << >> /\ dispatched = << >>
    /\ InitIdleSvc
    /\ InitIdleWs /\ InitIdleLoop

NextDetect ==
    \/ MonitorUserStart
    \/ CheckOiCoin
    \/ CheckOiReturn
    \/ DetectLiqCoin
    \/ DetectLiqReturn
    \/ MonitorUserReturn
    \/ OnWebsocketOiUpdate

SpecDetect == InitDetect /\ [][NextDetect]_vars

(***************************************************************************)
(* Properties of the detection paths                                       *)
(***************************************************************************)
IsRow(r) == r # NoRow /\ r # NotRun

\* indices of the change events of a symbol and timeframe in a list of alerts
ChangeIdx(alerts, symbol, tf) ==
    {k \in 1..Len(alerts) : /\ alerts[k].type = "open_interest"
                            /\ alerts[k].symbol = symbol
                            /\ alerts[k].timeframe = tf}

\* indices of the inferred-liquidation events of a list of alerts
LiqIdx(alerts) == {k \in 1..Len(alerts) : alerts[k].type = "estimated_liquidation"}

C2_LiquidationOnlyOnDrop ==
    /\ \A k \in LiqIdx(all_alerts) :
          LET a   == all_alerts[k]
              thr == IF "liquidation_oi_threshold" \in DOMAIN settings
                     THEN settings["liquidation_oi_threshold"] ELSE 8
          IN  /\ a.previous_value > 0
              /\ a.current_value < a.previous_value
              /\ (a.previous_value - a.current_value) * 100 >= thr * a.previous_value
    /\ \A k \in LiqIdx(wsAlerts) :
          LET a   == wsAlerts[k]
              thr == IF "liquidation_oi_threshold" \in DOMAIN settings
                     THEN settings["liquidation_oi_threshold"] ELSE 5
          IN  /\ a.previous_value > 0
              /\ a.current_value < a.previous_value
              /\ (a.previous_value - a.current_value) * 100 >= thr * a.previous_value

\* C2 witness: the streaming callback emitted an inferred liquidation and
\* handed it to the dispatcher
C2_Witness ==
    /\ wsCount > 0
    /\ LiqIdx(wsAlerts) # {}
    /\ dispatched # << >>

\* the liquidation threshold in force for the subscriber on each path
PollLiqThreshold ==
    IF "liquidation_oi_threshold" \in DOMAIN settings
    THEN settings["liquidation_oi_threshold"] ELSE 8
StreamLiqThreshold ==
    IF "liquidation_oi_threshold" \in DOMAIN settings
    THEN settings["liquidation_oi_threshold"] ELSE 5

\* C3 (as claimed): every inferred-liquidation event has confidence 'high'
\* when |percent_change| >= 1.5 * the subscriber's liquidation threshold, and
\* 'medium' otherwise
C3_ConfidenceRelativeToThreshold ==
    /\ \A k \in LiqIdx(all_alerts) :
          LET a == all_alerts[k] IN
          a.confidence =
              IF (a.previous_value - a.current_value) * 200
                     >= 3 * PollLiqThreshold * a.previous_value
              THEN "high" ELSE "medium"
    /\ \A k \in LiqIdx(wsAlerts) :
          LET a == wsAlerts[k] IN
          a.confidence =
              IF (a.previous_value - a.current_value) * 200
                     >= 3 * StreamLiqThreshold * a.previous_value
              THEN "high" ELSE "medium"

\* C4: detect_liquidations_from_oi with most recent prior snapshot 107,000,
\* current 100,000 and threshold 5 emits exactly one inferred liquidation for
\* the instrument, side long, confidence medium.
C4_Scenario ==
    pc = "detect_liq" /\ Get(settings, "liquidation_oi_threshold", 8) = 5 =>
        \A e \in 1..Len(evaluated) :
            LET ev == evaluated[e] IN
            (ev.outcome = "ok" /\ ev.current = 100000
                /\ ev.lookups[1].open_interest = 107000) =>
                LET mine == {k \in LiqIdx(all_alerts) : all_alerts[k].symbol = ev.symbol}
                IN  /\ Cardinality(mine) = 1
                    /\ \A k \in mine : /\ all_alerts[k].side = "long"
                                       /\ all_alerts[k].confidence = "medium"
                                       /\ all_alerts[k].current_value = 100000
                                       /\ all_alerts[k].previous_value = 107000

C4_Witness ==
    /\ pc = "detect_liq"
    /\ Get(settings, "liquidation_oi_threshold", 8) = 5
    /\ \E e \in 1..Len(evaluated) :
          /\ evaluated[e].outcome = "ok"
          /\ evaluated[e].current = 100000
          /\ evaluated[e].lookups[1].open_interest = 107000
          /\ \E k \in LiqIdx(all_alerts) : all_alerts[k].symbol = evaluated[e].symbol

\* C9: in a detection cycle every instrument of the list is visited in
\* order, whatever happened to the earlier ones (fetch returned nothing, or
\* an exception was raised); every tradable instrument is fetched; and the
\* events of every instrument that was processed without failure are in the
\* result.
C9_FailureSkipsOnlyThatInstrument ==
    pc \in {"check_oi", "detect_liq"} =>
        /\ Len(evaluated) = idx - 1
        /\ idx <= Len(coins) + 1
        /\ \A e \in 1..Len(evaluated) :
              LET ev == evaluated[e] IN
              /\ ev.symbol = coins[e]
              /\ ev.outcome = "unavailable" <=> coins[e] \notin available_symbols
              /\ (ev.outcome = "ok" /\ ev.phase = "oi") =>
                    \A j \in 1..Len(timeframes) :
                       LET prev == ev.lookups[j]
                           thr  == IF timeframes[j].key \in DOMAIN settings
                                   THEN settings[timeframes[j].key]
                                   ELSE timeframes[j].default
                       IN (/\ IsRow(prev) /\ prev.open_interest > 0
                           /\ \/ (ev.current - prev.open_interest) * 100
                                     >= thr * prev.open_interest
                              \/ (prev.open_interest - ev.current) * 100
                                     >= thr * prev.open_interest)
                          => ChangeIdx(all_alerts, ev.symbol, timeframes[j].name) # {}
              /\ (ev.outcome = "ok" /\ ev.phase = "liq") =>
                    LET prev == ev.lookups[1] IN
                    (/\ IsRow(prev) /\ prev.open_interest > 0
                     /\ (prev.open_interest - ev.current) * 100
                            >= PollLiqThreshold * prev.open_interest)
                    => \E k \in LiqIdx(all_alerts) : all_alerts[k].symbol = ev.symbol

\* C9 witness: the cycle is over, the first instrument raised an exception,
\* the second was evaluated and its event is in the result
C9_Witness ==
    /\ pc = "check_oi"
    /\ idx > Len(coins)
    /\ Len(evaluated) >= 2
    /\ evaluated[1].outcome = "error"
    /\ evaluated[2].outcome = "ok"
    /\ ChangeIdx(all_alerts, coins[2], "15min") # {}

(***************************************************************************)
(* Symbols as character sequences                                          *)
(***************************************************************************)
\* A symbol is a sequence of characters.  The characters used here:
UpperLetters == <<"A", "B", "C", "E", "H", "T">>
LowerLetters == <<"a", "b", "c", "e", "h", "t">>
DigitChars   == {"1"}
OtherChars   == {"-", "$"}

Chars == {UpperLetters[k] : k \in 1..Len(UpperLetters)}
            \cup {LowerLetters[k] : k \in 1..Len(LowerLetters)}
            \cup DigitChars \cup OtherChars

\* str.isalnum, str.upper and str.lower, character by character
AlnumChars == Chars \ OtherChars

UpperOf ==
    [c \in Chars |->
        IF \E k \in 1..Len(LowerLetters) : c = LowerLetters[k]
        THEN UpperLetters[CHOOSE k \in 1..Len(LowerLetters) : c = LowerLetters[k]]
        ELSE c]

LowerOf ==
    [c \in Chars |->
        IF \E k \in 1..Len(UpperLetters) : c = UpperLetters[k]
        THEN LowerLetters[CHOOSE k \in 1..Len(UpperLetters) : c = UpperLetters[k]]
        ELSE c]

isalnum(c) == c \in AlnumChars
upper(c) == UpperOf[c]
lower(c) == LowerOf[c]

Upper(symbol) == [k \in 1..Len(symbol) |-> upper(symbol[k])]
Lower(symbol) == [k \in 1..Len(symbol) |-> lower(symbol[k])]

\* variant: every character is kept
Sanitized_KeepsAll(symbol) == Upper(symbol)

\* binance_websocket.py lines 53 and 147-149: ''.join(c for c in symbol.upper() if c.isalnum())
Sanitized(symbol) == SelectSeq(Upper(symbol), isalnum)

\* a symbol of n equal characters
Rep(c, n) == [k \in 1..n |-> c]

(***************************************************************************)
(* Inbound messages: BinanceWebSocket._process_message                     *)
(***************************************************************************)
\* Values of inbound messages are counted in millions, so that the limit of
\* line 162 is an integer of the model.
ValueLimit == 10^9          \* line 162: current_oi > 1e15, in millions

\* An inbound message.  form: a JSON object ("dict"), other valid JSON
\* ("text") or not JSON at all; o and E carry the type of the JSON value.
Message(form, e, s, o, E) == [kind |-> "message", form |-> form, e |-> e, s |-> s, o |-> o, E |-> E]

Number(v)        == [type |-> "number", v |-> v]
NumericString(v) == [type |-> "numeric_string", v |-> v]
TextString       == [type |-> "text_string", v |-> 0]
NanString        == [type |-> "nan_string", v |-> 0]
List             == [type |-> "list", v |-> 0]

BTC == <<"B", "T", "C">>

\* a well-formed update of BTC to value v
Update(v) == Message("dict", "openInterest", BTC, v, Number(1))

Messages ==
    { Update(Number(50000)), Update(Number(50040)), Update(Number(50050)),
      Update(NumericString(60000)),
      Update(Number(0)),
      Message("dict", "openInterest", <<"b", "-", "t", "c">>, Number(60000), Number(1)),
      Message("invalid_json", "openInterest", BTC, Number(60000), Number(1)),
      Message("text", "openInterest", BTC, Number(60000), Number(1)),
      Message("dict", "trade", BTC, Number(60000), Number(1)),
      Message("dict", "openInterest", << >>, Number(60000), Number(1)),
      Message("dict", "openInterest", <<"-", "$">>, Number(60000), Number(1)),
      Message("dict", "openInterest", Rep("A", MaxSymbolLen + 1), Number(60000), Number(1)),
      Update(TextString), Update(NanString), Update(List),
      Update(Number(-5)), Update(NumericString(-5)), Update(Number(ValueLimit + 1)),
      Message("dict", "openInterest", BTC, Number(60000), Number(-1)),
      Message("dict", "openInterest", BTC, Number(60000), TextString) }

\* a float: not-a-number or the number v
Float(is_nan, v) == [nan |-> is_nan, v |-> v]

\* float comparisons; every comparison with not-a-number is false
Less(a, b)    == ~a.nan /\ ~b.nan /\ a.v < b.v
Greater(a, b) == ~a.nan /\ ~b.nan /\ a.v > b.v
LessEq(a, b)  == ~a.nan /\ ~b.nan /\ a.v <= b.v

\* the cache entries: symbol and last value
Cached(cache, symbol) == {c \in cache : c.symbol = symbol}

\* variant: the floor has to be exceeded
SignificantChange_Strict(current, previous) ==
    /\ ~current.nan /\ ~previous.nan
    /\ Abs(current.v - previous.v) * 1000 > previous.v

\* lines 187-190: abs(((current - previous) / previous) * 100) >= 0.1, for
\* previous > 0
SignificantChange(current, previous) ==
    /\ ~current.nan /\ ~previous.nan
    /\ Abs(current.v - previous.v) * 1000 >= previous.v

\* _process_message, lines 138-207, and the json.loads in front of it, lines
\* 117-121: the cache afterwards and whether on_oi_update was scheduled
ProcessMessage(cache, msg) ==
    LET unchanged  == [cache |-> cache, callback |-> FALSE]
        symbol     == Sanitized(msg.s)
        current_oi == Float(msg.o.type = "nan_string", msg.o.v)
        zero       == Float(FALSE, 0)
    IN  IF msg.form # "dict" THEN unchanged
        ELSE IF msg.e # "openInterest" THEN unchanged
        ELSE IF symbol = << >> \/ Len(symbol) > MaxSymbolLen THEN unchanged
        ELSE IF msg.o.type = "list" THEN unchanged
        ELSE IF msg.o.type = "text_string" THEN unchanged
        ELSE IF Less(current_oi, zero) \/ Greater(current_oi, Float(FALSE, ValueLimit))
             THEN unchanged
        ELSE IF msg.E.type # "number" \/ msg.E.v < 0 THEN unchanged
        ELSE IF LessEq(current_oi, zero) THEN unchanged
        ELSE [ cache    |-> (cache \ Cached(cache, symbol))
                               \cup {[symbol |-> symbol, oi |-> current_oi]},
               callback |-> \E c \in Cached(cache, symbol) :
                               /\ Greater(c.oi, zero)
                               /\ SignificantChange(current_oi, c.oi) ]

\* lines 117-123: whatever the message, the loop goes on to the next one
AfterMessage(msg) == "listening"

\* MonitoringService._on_websocket_oi_update, lines 206-212: the callback saves
\* the update's current value; it runs only for the updates that scheduled it
RecordedBy(saved, cache, msg) ==
    IF ProcessMessage(cache, msg).callback
    THEN saved \cup {[symbol |-> Sanitized(msg.s), oi |-> msg.o.v]}
    ELSE saved

(***************************************************************************)
(* Streaming ingestor: BinanceWebSocket, one object and its maintenance    *)
(* task.  MonitoringService creates a new object for every start and is    *)
(* the only caller of start and stop.                                      *)
(***************************************************************************)
InitIdlePoll ==
    /\ now = 0 /\ history = {} /\ settings = DEFAULT_USER_SETTINGS
    /\ coins = << >> /\ available_symbols = {}
    /\ pc = "idle" /\ idx = 1 /\ all_alerts = << >> /\ returned = << >>
    /\ alerts_table = << >> /\ evaluated = << >> /\ faults = 0
    /\ wsCount = 0 /\ wsAlerts = << >> /\ dispatched = << >>

InitIdleDetect == InitIdlePoll /\ InitIdleSvc

\* variant: the doubling without the ceiling
NextDelay_NoCeiling(delay) == delay * 2

\* line 79: min(self.reconnect_delay * 2, self.max_reconnect_delay)
NextDelay(delay) == Min(delay * 2, max_reconnect_delay)

\* variant: the delay is left as it is on a successful connect
ConnectedDelay_Kept(delay) == delay

\* line 103: self.reconnect_delay = 5
ConnectedDelay(delay) == 5

\* lines 73-77: _connect_and_listen raised.  While running the task waits
\* reconnect_delay; otherwise it goes back to the loop condition.
ConnectionFailed ==
    /\ consecutive' = consecutive + 1
    /\ IF running
       THEN /\ Len(waits) < MaxWaits
            /\ waits' = Append(waits, [delay |-> reconnect_delay,
                                       failure |-> consecutive + 1])
            /\ wsPc' = "backoff"
       ELSE /\ wsPc' = "loop"
            /\ UNCHANGED waits

\* start(symbols), lines 60-66, for a valid symbol list
WsStart ==
    /\ wsPc = "none"
    /\ running' = TRUE
    /\ wsPc' = "loop"
    /\ UNCHANGED <<reconnect_delay, websocket, consecutive, waits>>
    /\ UNCHANGED <<apiVars, msgVars>>
    /\ UNCHANGED <<detectVars, loopVars>>

\* line 70: while self.running
WsLoopCheck ==
    /\ wsPc = "loop"
    /\ wsPc' = IF running THEN "connecting" ELSE "done"
    /\ UNCHANGED <<running, reconnect_delay, websocket, consecutive, waits>>
    /\ UNCHANGED <<apiVars, msgVars>>
    /\ UNCHANGED <<detectVars, loopVars>>

\* lines 94-103: websockets.connect succeeds
WsConnectOk ==
    /\ wsPc = "connecting"
    /\ websocket' = "open"
    /\ reconnect_delay' = ConnectedDelay(reconnect_delay)
    /\ consecutive' = 0
    /\ wsPc' = "listening"
    /\ UNCHANGED <<running, waits>>
    /\ UNCHANGED <<apiVars, msgVars>>
    /\ UNCHANGED <<detectVars, loopVars>>

\* lines 94-101 raise: the connection attempt fails
WsConnectFails ==
    /\ wsPc = "connecting"
    /\ ConnectionFailed
    /\ UNCHANGED <<running, reconnect_delay, websocket>>
    /\ UNCHANGED <<apiVars, msgVars>>
    /\ UNCHANGED <<detectVars, loopVars>>

\* lines 108-123: a message arrives; the loop is left when running is false,
\* otherwise the message is processed
WsMessage ==
    /\ wsPc = "listening"
    /\ websocket = "open"
    /\ IF running
       THEN /\ lastMsg.n < MaxMessages
            /\ \E msg \in Messages :
                  /\ oi_cache' = ProcessMessage(oi_cache, msg).cache
                  /\ callbacks' = callbacks
                                  + (IF ProcessMessage(oi_cache, msg).callback THEN 1 ELSE 0)
                  /\ recorded' = RecordedBy(recorded, oi_cache, msg)
                  /\ wsPc' = AfterMessage(msg)
                  /\ lastMsg' = [msg |-> msg, cache |-> oi_cache,
                                 callbacks |-> callbacks, n |-> lastMsg.n + 1,
                                 pc |-> AfterMessage(msg)]
            /\ UNCHANGED websocket
       ELSE /\ wsPc' = "loop" /\ websocket' = "closed"
            /\ UNCHANGED msgVars
    /\ UNCHANGED <<running, reconnect_delay, consecutive, waits>>
    /\ UNCHANGED apiVars
    /\ UNCHANGED <<detectVars, loopVars>>

\* line 108: the iteration raises (abnormal disconnect)
WsDisconnect ==
    /\ wsPc = "listening"
    /\ websocket' = "closed"
    /\ ConnectionFailed
    /\ UNCHANGED <<running, reconnect_delay>>
    /\ UNCHANGED <<apiVars, msgVars>>
    /\ UNCHANGED <<detectVars, loopVars>>

\* line 108: the iteration ends (the connection was closed normally, by the
\* server or by stop()); _connect_and_listen returns
WsClosedNormally ==
    /\ wsPc = "listening"
    /\ websocket' = "closed"
    /\ wsPc' = "loop"
    /\ UNCHANGED <<running, reconnect_delay, consecutive, waits>>
    /\ UNCHANGED <<apiVars, msgVars>>
    /\ UNCHANGED <<detectVars, loopVars>>

\* lines 77-79: the sleep is over, the delay doubles up to the ceiling
WsBackoffOver ==
    /\ wsPc = "backoff"
    /\ reconnect_delay' = NextDelay(reconnect_delay)
    /\ wsPc' = "loop"
    /\ UNCHANGED <<running, websocket, consecutive, waits>>
    /\ UNCHANGED <<apiVars, msgVars>>
    /\ UNCHANGED <<detectVars, loopVars>>

\* stop(), lines 226-234
WsStop ==
    /\ wsPc # "none"
    /\ running
    /\ running' = FALSE
    /\ websocket' = IF websocket = None THEN None ELSE "closed"
    /\ UNCHANGED <<reconnect_delay, wsPc, consecutive, waits>>
    /\ UNCHANGED <<apiVars, msgVars>>
    /\ UNCHANGED <<detectVars, loopVars>>

InitWs ==
    /\ running = FALSE /\ reconnect_delay = BaseDelay /\ websocket = None
    /\ wsPc = "none" /\ consecutive = 0 /\ waits = << >>
    /\ InitIdleApi /\ InitIdleMsg
    /\ InitIdleDetect /\ InitIdleLoop

NextWs ==
    \/ WsStart
    \/ WsLoopCheck
    \/ WsConnectOk
    \/ WsConnectFails
    \/ WsMessage
    \/ WsDisconnect
    \/ WsClosedNormally
    \/ WsBackoffOver
    \/ WsStop

SpecWs == InitWs /\ [][NextWs]_vars

\* C5: the wait that follows the k-th consecutive failure is
\* min(5 * 2^(k-1), 60): 5, 10, 20 for the first three failures of a fresh
\* ingestor, and never more than 60.
C5_BackoffSchedule ==
    \A i \in 1..Len(waits) :
        /\ waits[i].delay = Min(5 * Pow2(waits[i].failure - 1), 60)
        /\ waits[i].delay <= 60
        /\ (i <= 3 /\ waits[i].failure = i) => waits[i].delay = << 5, 10, 20 >>[i]

\* C5 witness: five consecutive failures of a fresh ingestor; the fifth wait
\* is the ceiling
C5_Witness ==
    /\ Len(waits) >= 5
    /\ \A i \in 1..5 : waits[i].failure = i
    /\ waits[3].delay = 20
    /\ waits[5].delay = 60

\* C6: a successful connect resets the backoff: while connected the delay is
\* the base delay, and the wait after the first failure or abnormal
\* disconnect that follows a successful connect is 5s again, however many
\* failures came before.
C6_ResetOnConnect ==
    /\ wsPc = "listening" => reconnect_delay = 5
    /\ \A i \in 2..Len(waits) :
          waits[i].failure <= waits[i - 1].failure => waits[i].delay = 5

\* C6 witness: three consecutive failures, a successful connect, then a
\* failure
C6_Witness ==
    /\ Len(waits) >= 4
    /\ waits[3].failure = 3
    /\ waits[3].delay = 20
    /\ waits[4].failure = 1

(***************************************************************************)
(* Dispatcher: AlertService.send_alerts_batch / send_alert                 *)
(***************************************************************************)
\* an event as the dispatcher reads it
Alert(type, timeframe, symbol) == [type |-> type, timeframe |-> timeframe, symbol |-> symbol]

\* lines 42-43: the two filters by type
TypeFilter(alerts, type) == SelectSeq(alerts, LAMBDA a : a.type = type)

\* line 50: alert.get('timeframe', 'unknown')
TimeframeOf(a) == IF a.timeframe = None THEN "unknown" ELSE a.timeframe

\* lines 48-53: the keys of the timeframes dict, in insertion order
RECURSIVE TimeframeKeys(_, _)
TimeframeKeys(oi_alerts, seen) ==
    IF oi_alerts = << >> THEN seen
    ELSE LET tf == TimeframeOf(Head(oi_alerts)) IN
         TimeframeKeys(Tail(oi_alerts),
                       IF \E k \in 1..Len(seen) : seen[k] = tf THEN seen
                       ELSE Append(seen, tf))

\* variant: the suffix counts from the ninth line
MoreCount_FromNinth(n) == IF n > MaxLines THEN n - (MaxLines - 1) ELSE 0

\* lines 70-71 and 90-91: the "+K more" suffix, 0 when there is none
MoreCount(n) == IF n > MaxLines THEN n - MaxLines ELSE 0

\* lines 64-71 and 78-91: one grouped message
GroupMessage(group, group_alerts) ==
    [ group |-> group,
      lines |-> [k \in 1..Min(Len(group_alerts), MaxLines) |-> group_alerts[k].symbol],
      more  |-> MoreCount(Len(group_alerts)) ]

\* lines 42-93: the grouped messages of a batch, in the order they are sent
BatchMessages(alerts) ==
    LET oi_alerts  == TypeFilter(alerts, "open_interest")
        liq_alerts == TypeFilter(alerts, "estimated_liquidation")
        keys       == TimeframeKeys(oi_alerts, << >>)
    IN  [k \in 1..Len(keys) |->
            GroupMessage(keys[k],
                         SelectSeq(oi_alerts, LAMBDA a : TimeframeOf(a) = keys[k]))]
        \o (IF liq_alerts # << >>
            THEN << GroupMessage("liquidations", liq_alerts) >> ELSE << >>)

\* variant: the exception of send_message leaves send_alert
SendRaises_Propagates(ok) == ~ok

\* send_alert, lines 24-33: an exception of send_message is caught and logged
SendRaises(ok) == FALSE

(***************************************************************************)
(* Monitoring loop: AlertService.monitoring_loop                           *)
(***************************************************************************)
IsWebsocketUser(u) == u.monitoring_mode = "websocket"

\* lines 116-117
websocket_users == SelectSeq(users, IsWebsocketUser)
api_users       == SelectSeq(users, LAMBDA u : ~IsWebsocketUser(u))

\* variant: the exception of a cycle leaves monitoring_loop
CycleErrorGoesTo_Propagates == "exited"

\* lines 162-164: an exception of a cycle is logged and followed by the
\* cooldown
CycleErrorGoesTo == "cooldown"

\* lines 122-128: the union of the filtered, capped coins of the streaming users
AllSymbols(us) ==
    UNION { us[k].coins : k \in {i \in 1..Len(us) : IsWebsocketUser(us[i])} }

\* lines 108-133 and 153-158: a cycle begins.  get_monitoring_users may raise,
\* and so may the streaming setup (filter_coins); both end the cycle in the
\* handler of line 162.  The ingestor is started when there are streaming
\* users and it is not active, and stopped when there are no users at all.
LoopCycleStart ==
    /\ loopPc = "top"
    /\ is_running
    /\ cycleNo < MaxLoopCycles
    /\ cycleNo' = cycleNo + 1
    /\ sent' = << >>
    /\ processed' = << >>
    /\ userIdx' = 1
    /\ \E error \in {"none", "get_monitoring_users", "filter_coins"} :
          LET fetched == IF error = "get_monitoring_users" THEN << >> ELSE db_users
              setup   == SelectSeq(fetched, IsWebsocketUser) # << >> /\ ~websocket_active
          IN /\ error = "filter_coins" => setup
             /\ users' = fetched
             /\ raised' = IF error = "none" THEN raised ELSE raised \cup {cycleNo + 1}
             /\ IF error # "none"
                THEN /\ loopPc' = CycleErrorGoesTo
                     /\ UNCHANGED <<websocket_active, ws_symbols>>
                ELSE IF fetched = << >>
                THEN /\ websocket_active' = FALSE
                     /\ ws_symbols' = {}
                     /\ loopPc' = "sleep"
                ELSE /\ loopPc' = "users"
                     /\ IF setup /\ AllSymbols(fetched) # {}
                        THEN /\ websocket_active' = TRUE
                             /\ ws_symbols' = AllSymbols(fetched)
                        ELSE UNCHANGED <<websocket_active, ws_symbols>>
    /\ UNCHANGED <<userAlerts, batch, batchPos, is_running, db_users, changes>>
    /\ UNCHANGED <<detectVars, wsVars>>

\* AlertService.stop, lines 166-169
AlertStop ==
    /\ is_running
    /\ loopPc # "exited"
    /\ is_running' = FALSE
    /\ UNCHANGED <<users, userAlerts, loopPc, userIdx, websocket_active, batch,
                   batchPos, sent, processed, cycleNo, db_users, ws_symbols,
                   raised, changes>>
    /\ UNCHANGED <<detectVars, wsVars>>

\* line 108: the loop condition fails and monitoring_loop returns
LoopExit ==
    /\ loopPc = "top"
    /\ ~is_running
    /\ loopPc' = "exited"
    /\ UNCHANGED <<users, userAlerts, userIdx, websocket_active, batch, batchPos,
                   sent, processed, cycleNo, is_running, db_users, ws_symbols,
                   raised, changes>>
    /\ UNCHANGED <<detectVars, wsVars>>

\* lines 135-146: monitor_user for the next polling user; an error inside
\* monitor_user is caught there (monitoring_service.py lines 314-317) and the
\* user yields nothing; a non-empty result goes to send_alerts_batch
LoopProcessUser ==
    /\ loopPc = "users"
    /\ userIdx <= Len(api_users)
    /\ \E error \in BOOLEAN :
       LET user   == api_users[userIdx]
           alerts == IF error THEN << >> ELSE userAlerts[user.user_id]
       IN /\ processed' = Append(processed, [user_id |-> user.user_id, error |-> error])
          /\ IF alerts # << >>
             THEN /\ batch' = alerts
                  /\ batchPos' = 1
                  /\ loopPc' = "sending"
                  /\ UNCHANGED userIdx
             ELSE /\ userIdx' = userIdx + 1
                  /\ UNCHANGED <<batch, batchPos, loopPc>>
    /\ UNCHANGED <<users, userAlerts, websocket_active, sent, cycleNo>>
    /\ UNCHANGED <<is_running, db_users, ws_symbols, raised, changes>>
    /\ UNCHANGED <<detectVars, wsVars>>

\* send_alerts_batch, lines 62-74 and 77-93: the next grouped message is
\* built and handed to send_alert; send_message succeeds or raises
SendGroupedMessage ==
    /\ loopPc = "sending"
    /\ batchPos <= Len(BatchMessages(batch))
    /\ \E ok \in BOOLEAN :
          /\ sent' = Append(sent, [ user_id |-> api_users[userIdx].user_id,
                                    chat_id |-> api_users[userIdx].chat_id,
                                    message |-> BatchMessages(batch)[batchPos],
                                    ok      |-> ok ])
          /\ batchPos' = IF SendRaises(ok) THEN Len(BatchMessages(batch)) + 1
                         ELSE batchPos + 1
    /\ UNCHANGED <<users, userAlerts, loopPc, userIdx, websocket_active, batch,
                   processed, cycleNo>>
    /\ UNCHANGED <<is_running, db_users, ws_symbols, raised, changes>>
    /\ UNCHANGED <<detectVars, wsVars>>

\* send_alerts_batch returns (line 95); line 146
BatchDone ==
    /\ loopPc = "sending"
    /\ batchPos > Len(BatchMessages(batch))
    /\ loopPc' = "users"
    /\ userIdx' = userIdx + 1
    /\ batch' = << >>
    /\ batchPos' = 0
    /\ UNCHANGED <<users, userAlerts, websocket_active, sent, processed, cycleNo>>
    /\ UNCHANGED <<is_running, db_users, ws_symbols, raised, changes>>
    /\ UNCHANGED <<detectVars, wsVars>>

\* line 152: all polling users were handled
LoopCycleEnd ==
    /\ loopPc = "users"
    /\ userIdx > Len(api_users)
    /\ loopPc' = "sleep"
    /\ UNCHANGED <<users, userAlerts, userIdx, websocket_active, batch, batchPos,
                   sent, processed, cycleNo>>
    /\ UNCHANGED <<is_running, db_users, ws_symbols, raised, changes>>
    /\ UNCHANGED <<detectVars, wsVars>>

\* line 160: asyncio.sleep(interval) is over
LoopSleepOver ==
    /\ loopPc = "sleep"
    /\ loopPc' = "top"
    /\ UNCHANGED <<users, userAlerts, userIdx, websocket_active, batch, batchPos,
                   sent, processed, cycleNo>>
    /\ UNCHANGED <<is_running, db_users, ws_symbols, raised, changes>>
    /\ UNCHANGED <<detectVars, wsVars>>

\* lines 162-164: the cooldown after an exception is over
LoopCooldownOver ==
    /\ loopPc = "cooldown"
    /\ loopPc' = "top"
    /\ UNCHANGED <<users, userAlerts, userIdx, websocket_active, batch, batchPos,
                   sent, processed, cycleNo>>
    /\ UNCHANGED <<is_running, db_users, ws_symbols, raised, changes>>
    /\ UNCHANGED <<detectVars, wsVars>>

NextLoop ==
    \/ LoopCycleStart
    \/ LoopProcessUser
    \/ SendGroupedMessage
    \/ BatchDone
    \/ LoopCycleEnd
    \/ LoopSleepOver
    \/ LoopCooldownOver
    \/ AlertStop
    \/ LoopExit

\* The result of monitor_user for `size` instruments: instrument k emits a
\* change event for a timeframe when it is among the n (first, or last when
\* fromEnd) instruments of that timeframe, then the liquidation events follow
\* (monitor_user lines 286-299).
AlertList(size, n15, n30, n60, nliq, fromEnd) ==
    LET emits(k, n, rev) == IF rev THEN k > size - n ELSE k <= n
        coin(k) == (IF emits(k, n15, fromEnd)
                    THEN << Alert("open_interest", "15min", Symbols[((k - 1) % Len(Symbols)) + 1]) >>
                    ELSE << >>)
                \o (IF emits(k, n30, FALSE)
                    THEN << Alert("open_interest", "30min", Symbols[((k - 1) % Len(Symbols)) + 1]) >>
                    ELSE << >>)
                \o (IF emits(k, n60, FALSE)
                    THEN << Alert("open_interest", "1hour", Symbols[((k - 1) % Len(Symbols)) + 1]) >>
                    ELSE << >>)
    IN  SeqConcat([k \in 1..size |-> coin(k)])
        \o [k \in 1..nliq |-> Alert("estimated_liquidation", None,
                                    Symbols[((k - 1) % Len(Symbols)) + 1])]

\* a users row; coins stands for filter_coins(settings)[:max_coins_to_check]
User(id, mode, user_coins) ==
    [user_id |-> id, chat_id |-> 100 + id, monitoring_mode |-> mode, coins |-> user_coins]

\* one polling user whose cycle yields groups of up to MaxGroup events, and
\* one streaming user
InitBatch ==
    /\ db_users = << User(1, "api", {}), User(2, "websocket", {"AAA"}) >>
    /\ users = << >>
    /\ \E n15 \in 0..MaxGroup, n30 \in {0, MaxGroup}, n60 \in {0, 1},
          nliq \in 0..MaxGroup, fromEnd \in BOOLEAN :
          userAlerts = << AlertList(MaxGroup, n15, n30, n60, nliq, fromEnd), << >> >>
    /\ loopPc = "top" /\ userIdx = 1 /\ websocket_active = FALSE
    /\ batch = << >> /\ batchPos = 0 /\ sent = << >> /\ processed = << >>
    /\ cycleNo = 0
    /\ is_running = TRUE /\ ws_symbols = {} /\ raised = {} /\ changes = 0
    /\ InitIdleDetect /\ InitIdleWs

SpecBatch == InitBatch /\ [][NextLoop]_vars

\* up to MaxUsers users of either mode, each with a small result
SmallAlertLists ==
    { << >>, AlertList(1, 1, 0, 0, 0, FALSE), AlertList(1, 1, 1, 0, 1, FALSE) }

InitLoop ==
    /\ \E n \in 0..MaxUsers :
       \E modes \in [1..n -> {"api", "websocket"}] :
          /\ \E user_coins \in [1..n -> {{}, {"AAA"}}] :
                /\ db_users = [k \in 1..n |-> User(k, modes[k], user_coins[k])]
                /\ \A k \in 1..n : modes[k] = "api" => user_coins[k] = {}
          /\ users = << >>
          /\ userAlerts \in [1..n -> SmallAlertLists]
          /\ \A k \in 1..n : modes[k] = "websocket" => userAlerts[k] = << >>
    /\ loopPc = "top" /\ userIdx = 1 /\ websocket_active = FALSE
    /\ batch = << >> /\ batchPos = 0 /\ sent = << >> /\ processed = << >>
    /\ cycleNo = 0
    /\ is_running = TRUE /\ ws_symbols = {} /\ raised = {} /\ changes = 0
    /\ InitIdleDetect /\ InitIdleWs

SpecLoop == InitLoop /\ [][NextLoop]_vars

\* the rows a user can have in the users table while monitoring is enabled:
\* user 1 polls or streams, user 2 streams with one of two filter results
UserRows(id) ==
    IF id = 1 THEN { User(1, "api", {}), User(1, "websocket", {"AAA"}) }
    ELSE { User(id, "websocket", {"BBB"}), User(id, "websocket", {"BBB", "CCC"}) }

\* the possible results of SELECT * FROM users WHERE is_monitoring = 1
UserTables ==
    { t \in UNION { [1..n -> UNION { UserRows(id) : id \in 1..2 }] : n \in 0..2 } :
         /\ \A k \in 1..Len(t) : t[k] \in UserRows(t[k].user_id)
         /\ \A j, k \in 1..Len(t) : j < k => t[j].user_id < t[k].user_id }

\* Database.set_monitoring_status / update_user_settings: a user enables or
\* disables monitoring, or changes mode or filters, at any time
UserChange ==
    /\ changes < MaxUserChanges
    /\ changes' = changes + 1
    /\ \E t \in UserTables :
          /\ t # db_users
          /\ db_users' = t
    /\ UNCHANGED <<users, userAlerts, loopPc, userIdx, websocket_active, batch,
                   batchPos, sent, processed, cycleNo, is_running, ws_symbols,
                   raised>>
    /\ UNCHANGED <<detectVars, wsVars>>

NextStream ==
    \/ NextLoop
    \/ UserChange

InitStream ==
    /\ db_users \in UserTables
    /\ users = << >>
    /\ userAlerts = << AlertList(1, 1, 0, 0, 0, FALSE), << >> >>
    /\ loopPc = "top" /\ userIdx = 1 /\ websocket_active = FALSE
    /\ batch = << >> /\ batchPos = 0 /\ sent = << >> /\ processed = << >>
    /\ cycleNo = 0
    /\ is_running = TRUE /\ ws_symbols = {} /\ raised = {} /\ changes = 0
    /\ InitIdleDetect /\ InitIdleWs

SpecStream == InitStream /\ [][NextStream]_vars

(***************************************************************************)
(* Properties of the dispatcher and the monitoring loop                    *)
(***************************************************************************)
\* the group an event belongs to
GroupOfAlert(a) ==
    IF a.type = "open_interest" THEN TimeframeOf(a) ELSE "liquidations"

\* the number of events of a group in a batch, counted on the batch itself
GroupTotal(alerts, group) ==
    Cardinality({k \in 1..Len(alerts) : GroupOfAlert(alerts[k]) = group})

\* the send_message calls made so far for the user being served
SentTo(user_id) == SelectSeq(sent, LAMBDA m : m.user_id = user_id)

\* C7: while a batch is being sent, every grouped message sent for it has at
\* most 10 lines, carries a "+K more" suffix exactly when its group has more
\* than 10 events, shows plus counts exactly the events of its group, and no
\* two messages of the batch are for the same group.
C7_GroupedMessageCap ==
    loopPc = "sending" =>
        LET mine == SentTo(api_users[userIdx].user_id) IN
        /\ \A k \in 1..Len(mine) :
              LET m     == mine[k].message
                  total == GroupTotal(batch, m.group)
              IN /\ Len(m.lines) <= 10
                 /\ (m.more > 0) <=> (total > 10)
                 /\ Len(m.lines) + m.more = total
                 /\ total > 0
        /\ \A j, k \in 1..Len(mine) :
              mine[j].message.group = mine[k].message.group => j = k

\* C7 witness: a batch was sent completely with one group above the cap, one
\* group exactly at the cap and one below it
C7_Witness ==
    /\ loopPc = "sending"
    /\ batchPos > Len(BatchMessages(batch))
    /\ \E i, j, k \in 1..Len(sent) :
          /\ sent[i].message.more = 2    /\ Len(sent[i].message.lines) = 10
          /\ sent[j].message.more = 0    /\ Len(sent[j].message.lines) = 10
          /\ sent[k].message.more = 0    /\ Len(sent[k].message.lines) = 1
          /\ sent[i].message.group = "liquidations"
          /\ sent[j].message.group = "15min"

\* the ids of a sequence of users or of log entries
Ids(seq) == [k \in 1..Len(seq) |-> seq[k].user_id]

\* C8: when a cycle is over, by its sleep or by the cooldown after an error,
\* every polling user of the cycle was processed, whatever errors were raised
\* for other users or in the streaming setup.
C8_ErrorNeverSkipsPollingUsers ==
    loopPc \in {"sleep", "cooldown"} => Ids(processed) = Ids(api_users)

\* what send_alerts_batch has to send for a processed user
Expected(p) ==
    IF p.error THEN << >> ELSE BatchMessages(userAlerts[p.user_id])

\* C10: once a send_message call of the cycle has failed, the batch goes on
\* with its next message, every finished batch has handed all its messages to
\* send_message, and the cycle ends with all polling users processed.
C10_DeliveryFailureIsolated ==
    (\E k \in 1..Len(sent) : ~sent[k].ok) =>
        /\ loopPc = "sending" =>
              LET mine == SentTo(api_users[userIdx].user_id) IN
              /\ batchPos = Len(mine) + 1
              /\ \A k \in 1..Len(mine) : mine[k].message = BatchMessages(batch)[k]
        /\ loopPc \in {"users", "sleep"} =>
              \A k \in 1..Len(processed) :
                 LET mine == SentTo(processed[k].user_id) IN
                 /\ Len(mine) = Len(Expected(processed[k]))
                 /\ \A j \in 1..Len(mine) : mine[j].message = Expected(processed[k])[j]
        /\ loopPc \in {"sleep", "cooldown"} => Ids(processed) = Ids(api_users)

\* C10 witness: a cycle ended in which a delivery failed, a later message of
\* the same batch and a message to another recipient were delivered
C10_Witness ==
    /\ loopPc = "sleep"
    /\ \E i, j, k \in 1..Len(sent) :
          /\ i < j /\ j < k
          /\ ~sent[i].ok
          /\ sent[j].user_id = sent[i].user_id /\ sent[j].ok
          /\ sent[k].user_id # sent[i].user_id /\ sent[k].ok

\* C11: monitoring_loop returns only when is_running is false, so never because
\* of an exception of a cycle; a cycle that raised is followed by the cooldown,
\* and the only way out of the cooldown is back to the loop condition.
C11_CycleExceptionNeverEndsLoop ==
    /\ [](loopPc = "exited" => ~is_running)
    /\ []((cycleNo \in raised /\ loopPc # "top" /\ loopPc # "exited")
             => loopPc = "cooldown")
    /\ [][loopPc = "cooldown" => loopPc' \in {"cooldown", "top"}]_vars

\* C11 witness: the first cycle raised, and the loop, still running, is inside
\* its second cycle
C11_Witness ==
    /\ is_running
    /\ 1 \in raised
    /\ cycleNo = 2
    /\ loopPc = "sending"

\* C12: when a cycle has completed, the ingestor is active if the cycle saw a
\* streaming user with instruments, and it is not active if the cycle saw no
\* streaming user, whether or not polling users remain.
C12_IngestorFollowsStreamingUsers ==
    loopPc = "sleep" =>
        /\ AllSymbols(users) # {} => websocket_active
        /\ websocket_users = << >> => ~websocket_active

\* C13: when a cycle has completed with the ingestor active, the ingestor's
\* symbols cover the instruments of every streaming user the cycle saw.
C13_SubscriptionCoversStreamingUsers ==
    (loopPc = "sleep" /\ websocket_active) => AllSymbols(users) \subseteq ws_symbols

(***************************************************************************)
(* Streaming ingestor as an object: start, stop, update_symbols and the    *)
(* maintenance tasks they create                                           *)
(***************************************************************************)
\* lines 42-44: the list is cut to max_symbols entries
Limited(symbols) ==
    IF Len(symbols) > max_symbols THEN SubSeq(symbols, 1, max_symbols) ELSE symbols

\* lines 47-55: validated_symbols
Validated(symbols) ==
    LET limited   == Limited(symbols)
        sanitized == [k \in 1..Len(limited) |-> Sanitized(limited[k])]
        kept      == SelectSeq(sanitized, LAMBDA x : x # << >> /\ Len(x) <= MaxSymbolLen)
    IN  [k \in 1..Len(kept) |-> Lower(kept[k])]

\* variant: only the empty list is refused
StartRaises_OnlyEmpty(symbols) == symbols = << >>

\* lines 39-40 and 57-58: start raises ValueError
StartRaises(symbols) == symbols = << >> \/ Validated(symbols) = << >>

\* variant: closing a closed connection raises
CloseRaises_WhenClosed(conn) == conn = "closed"

\* line 232: close() of the websockets library does nothing on a closed
\* connection and does not raise
CloseRaises(conn) == FALSE

\* a task created by line 66, at the loop condition of _maintain_connection
NewTask == [pc |-> "check", streams |-> << >>, conn |-> "none", fresh |-> FALSE]

\* the state an API call finds
Before == [running |-> running, subscribed_symbols |-> subscribed_symbols,
           tasks |-> Len(tasks)]

\* the tasks as an API call leaves them: none of their connections counts as
\* opened after the call
Stale(ts) == [k \in 1..Len(ts) |-> [ts[k] EXCEPT !.fresh = FALSE]]

\* lines 229-232: stop clears running and closes the connection
\* self.websocket refers to
StopEffect(st) ==
    [ running |-> FALSE,
      tasks   |-> [k \in 1..Len(st.tasks) |->
                      IF k = st.wsRef /\ st.tasks[k].conn = "open"
                      THEN [st.tasks[k] EXCEPT !.conn = "closed"]
                      ELSE st.tasks[k]],
      wsRef   |-> st.wsRef,
      raised  |-> (st.wsRef # 0 /\ CloseRaises(st.tasks[st.wsRef].conn)) ]

\* the part of the ingestor stop works on
StopInput(ts) == [running |-> running, tasks |-> ts, wsRef |-> wsRef, raised |-> FALSE]

\* a list of n symbols
Many(n) == [k \in 1..n |-> <<"E", "1">>]

\* the symbol lists handed to update_symbols
ShortSymbolLists ==
    { << >>,
      << <<"b", "T", "-", "c">> >>,
      << <<"-", "$">> >>,
      << Rep("A", MaxSymbolLen + 1) >>,
      << Rep("e", MaxSymbolLen), <<"$">>, <<"h", "$", "1">> >> }

\* the symbol lists handed to start: the same, and lists of max_symbols and of
\* more than max_symbols entries
ApiSymbolLists ==
    ShortSymbolLists \cup { Many(max_symbols), Many(max_symbols + 1) }

\* what start(symbols) does with each list: whether it raises (lines 39-40,
\* 57-58) and the validated_symbols it stores (line 60)
StartOutcome ==
    [symbols \in ApiSymbolLists |->
        [raises |-> StartRaises(symbols), validated |-> Validated(symbols)]]

\* the body of start(symbols), lines 38-66, called directly or by update_symbols
StartBody(symbols, via, ts) ==
    /\ lastCall' = [op |-> "start", via |-> via, arg |-> symbols,
                    raised |-> StartOutcome[symbols].raises, before |-> Before]
    /\ IF StartOutcome[symbols].raises
       THEN /\ tasks' = ts
            /\ UNCHANGED <<running, subscribed_symbols>>
       ELSE /\ subscribed_symbols' = StartOutcome[symbols].validated
            /\ running' = TRUE
            /\ tasks' = Append(ts, NewTask)

\* start(symbols), lines 31-66
ApiStart ==
    /\ apiCalls < MaxCalls
    /\ updPc = "idle"
    /\ apiCalls' = apiCalls + 1
    /\ \E symbols \in ApiSymbolLists : StartBody(symbols, "direct", Stale(tasks))
    /\ UNCHANGED <<wsRef, updPc, updArg, reconnect_delay>>
    /\ UNCHANGED <<websocket, wsPc, consecutive, waits, msgVars>>
    /\ UNCHANGED <<detectVars, loopVars>>

\* stop(), lines 226-234
ApiStop ==
    /\ updPc = "idle"
    /\ running' = StopEffect(StopInput(Stale(tasks))).running
    /\ tasks' = StopEffect(StopInput(Stale(tasks))).tasks
    /\ lastCall' = [op |-> "stop", via |-> "direct", arg |-> << >>,
                    raised |-> StopEffect(StopInput(Stale(tasks))).raised,
                    before |-> Before]
    /\ UNCHANGED <<subscribed_symbols, wsRef, updPc, updArg, apiCalls, reconnect_delay>>
    /\ UNCHANGED <<websocket, wsPc, consecutive, waits, msgVars>>
    /\ UNCHANGED <<detectVars, loopVars>>

\* update_symbols(symbols), lines 216-223: the new list is stored lower-cased;
\* a running ingestor is stopped and the call sleeps for a second
ApiUpdateSymbols ==
    /\ apiCalls < MaxCalls
    /\ updPc = "idle"
    /\ apiCalls' = apiCalls + 1
    /\ \E symbols \in ShortSymbolLists :
          /\ subscribed_symbols' = [k \in 1..Len(symbols) |-> Lower(symbols[k])]
          /\ updArg' = symbols
          /\ lastCall' = [op |-> "update_symbols", via |-> "direct", arg |-> symbols,
                          raised |-> FALSE, before |-> Before]
    /\ IF running
       THEN /\ running' = StopEffect(StopInput(Stale(tasks))).running
            /\ tasks' = StopEffect(StopInput(Stale(tasks))).tasks
            /\ updPc' = "sleeping"
       ELSE /\ tasks' = Stale(tasks)
            /\ UNCHANGED <<running, updPc>>
    /\ UNCHANGED <<wsRef, reconnect_delay>>
    /\ UNCHANGED <<websocket, wsPc, consecutive, waits, msgVars>>
    /\ UNCHANGED <<detectVars, loopVars>>

\* update_symbols, line 224: the sleep is over and start(symbols) is called
ApiUpdateRestart ==
    /\ updPc = "sleeping"
    /\ updPc' = "idle"
    /\ StartBody(updArg, "update_symbols", tasks)
    /\ UNCHANGED <<wsRef, updArg, apiCalls, reconnect_delay>>
    /\ UNCHANGED <<websocket, wsPc, consecutive, waits, msgVars>>
    /\ UNCHANGED <<detectVars, loopVars>>

\* _maintain_connection, line 70, and _connect_and_listen, lines 84-85: the
\* loop condition; a running ingestor builds the stream path from
\* subscribed_symbols and begins to connect
TaskLoopCheck ==
    \E i \in 1..Len(tasks) :
        /\ tasks[i].pc = "check"
        /\ tasks' = [tasks EXCEPT ![i] =
                        IF running
                        THEN [@ EXCEPT !.pc = "connecting", !.streams = subscribed_symbols]
                        ELSE [@ EXCEPT !.pc = "done"]]
        /\ UNCHANGED <<running, subscribed_symbols, wsRef, updPc, updArg, lastCall,
                       apiCalls, reconnect_delay>>
        /\ UNCHANGED <<websocket, wsPc, consecutive, waits, msgVars>>
        /\ UNCHANGED <<detectVars, loopVars>>

\* lines 94-105: the connection is open
TaskConnectOk ==
    \E i \in 1..Len(tasks) :
        /\ tasks[i].pc = "connecting"
        /\ tasks' = [tasks EXCEPT ![i] =
                        [@ EXCEPT !.pc = "listening", !.conn = "open",
                                  !.fresh = (lastCall.via = "update_symbols")]]
        /\ wsRef' = i
        /\ reconnect_delay' = ConnectedDelay(reconnect_delay)
        /\ UNCHANGED <<running, subscribed_symbols, updPc, updArg, lastCall, apiCalls>>
        /\ UNCHANGED <<websocket, wsPc, consecutive, waits, msgVars>>
        /\ UNCHANGED <<detectVars, loopVars>>

\* lines 94-101 and 73-77: connecting raises
TaskConnectFails ==
    \E i \in 1..Len(tasks) :
        /\ tasks[i].pc = "connecting"
        /\ tasks' = [tasks EXCEPT ![i] =
                        [@ EXCEPT !.pc = IF running THEN "waiting" ELSE "check",
                                  !.streams = << >>]]
        /\ UNCHANGED <<running, subscribed_symbols, wsRef, updPc, updArg, lastCall,
                       apiCalls, reconnect_delay>>
        /\ UNCHANGED <<websocket, wsPc, consecutive, waits, msgVars>>
        /\ UNCHANGED <<detectVars, loopVars>>

\* lines 108-110 and 73-77: listening ends, because the connection was closed,
\* because a message arrived while running is false, or by a failure of the
\* connection, which leads to the reconnect wait when running is true
TaskListenEnds ==
    \E i \in 1..Len(tasks) :
        /\ tasks[i].pc = "listening"
        /\ \E failure \in BOOLEAN :
              tasks' = [tasks EXCEPT ![i] =
                           [@ EXCEPT !.pc = IF failure /\ running THEN "waiting" ELSE "check",
                                     !.conn = "closed", !.streams = << >>, !.fresh = FALSE]]
        /\ UNCHANGED <<running, subscribed_symbols, wsRef, updPc, updArg, lastCall,
                       apiCalls, reconnect_delay>>
        /\ UNCHANGED <<websocket, wsPc, consecutive, waits, msgVars>>
        /\ UNCHANGED <<detectVars, loopVars>>

\* lines 77-79: the reconnect wait is over
TaskBackoffOver ==
    \E i \in 1..Len(tasks) :
        /\ tasks[i].pc = "waiting"
        /\ tasks' = [tasks EXCEPT ![i] = [@ EXCEPT !.pc = "check"]]
        /\ reconnect_delay' = NextDelay(reconnect_delay)
        /\ UNCHANGED <<running, subscribed_symbols, wsRef, updPc, updArg, lastCall,
                       apiCalls>>
        /\ UNCHANGED <<websocket, wsPc, consecutive, waits, msgVars>>
        /\ UNCHANGED <<detectVars, loopVars>>

NextApi ==
    \/ ApiStart
    \/ ApiStop
    \/ ApiUpdateSymbols
    \/ ApiUpdateRestart
    \/ TaskLoopCheck
    \/ TaskConnectOk
    \/ TaskConnectFails
    \/ TaskListenEnds
    \/ TaskBackoffOver

InitApi ==
    /\ running = FALSE /\ reconnect_delay = BaseDelay /\ websocket = None
    /\ wsPc = "none" /\ consecutive = 0 /\ waits = << >>
    /\ InitIdleApi /\ InitIdleMsg
    /\ InitIdleDetect /\ InitIdleLoop

SpecApi == InitApi /\ [][NextApi]_vars

(***************************************************************************)
(* Properties of the ingestor object                                       *)
(***************************************************************************)
\* a task that can open or hold a connection
Active(t) ==
    \/ t.pc \in {"connecting", "listening"}
    \/ t.pc \in {"check", "waiting"} /\ running

\* C14: at any time at most one maintenance task can open or hold a streaming
\* connection.
C14_SingleMaintenanceLoop ==
    Cardinality({i \in 1..Len(tasks) : Active(tasks[i])}) <= 1

\* C15: a start call with more than max_symbols symbols raises and starts
\* nothing.
C15_OversizedStartRaises ==
    (lastCall.op = "start" /\ Len(lastCall.arg) > max_symbols) =>
        /\ lastCall.raised
        /\ running = lastCall.before.running
        /\ Len(tasks) = lastCall.before.tasks

\* a symbol with its non-alphanumeric characters removed, in lower case
StripLower(symbol) == Lower(SelectSeq(symbol, isalnum))

NoneValid(symbols) ==
    \A j \in 1..Len(symbols) :
       StripLower(symbols[j]) = << >> \/ Len(StripLower(symbols[j])) > 20

\* C17: a start call with an empty list, or with a list none of whose entries
\* yields a valid symbol, raises and leaves running, subscribed_symbols and
\* the set of tasks as they were.
C17_InvalidStartChangesNothing ==
    (lastCall.op = "start" /\ NoneValid(lastCall.arg)) =>
        /\ lastCall.raised
        /\ running = lastCall.before.running
        /\ subscribed_symbols = lastCall.before.subscribed_symbols
        /\ Len(tasks) = lastCall.before.tasks

\* C17 witness: a running ingestor was asked to start with a list of unusable
\* symbols
C17_Witness ==
    /\ lastCall.op = "start" /\ lastCall.raised
    /\ lastCall.arg = << <<"-", "$">> >>
    /\ lastCall.before.running /\ running
    /\ subscribed_symbols = << <<"b", "t", "c">> >>

AllValid(symbols) ==
    \A j \in 1..Len(symbols) :
       StripLower(symbols[j]) # << >> /\ Len(StripLower(symbols[j])) <= 20

\* C19: once update_symbols has restarted a running ingestor with a non-empty
\* list of usable symbols, the ingestor is running, it is subscribed to
\* exactly the normalized list, and every connection opened since subscribes
\* to that list.
C19_UpdateRestartsWithNewSet ==
    (lastCall.op = "start" /\ lastCall.via = "update_symbols"
        /\ updArg # << >> /\ AllValid(updArg)) =>
        LET new_set == [k \in 1..Len(updArg) |-> StripLower(updArg[k])] IN
        /\ running
        /\ subscribed_symbols = new_set
        /\ \A i \in 1..Len(tasks) :
              (tasks[i].fresh /\ tasks[i].conn = "open") => tasks[i].streams = new_set

\* a message the ingestor has to drop: not a structured record, another event
\* tag, an empty or over-length symbol, a value that is not a number, is
\* negative or is above 1e15, a timestamp that is not a number or is negative
Malformed(msg) ==
    \/ msg.form # "dict"
    \/ msg.e # "openInterest"
    \/ StripLower(msg.s) = << >> \/ Len(StripLower(msg.s)) > 20
    \/ msg.o.type \in {"text_string", "nan_string", "list"}
    \/ msg.o.v < 0 \/ msg.o.v > 10^9       \* above 1e15, counted in millions
    \/ msg.E.type # "number" \/ msg.E.v < 0

\* C20: a malformed or out-of-range message leaves the cache as it was,
\* schedules no callback, and the listening loop goes on.
C20_MalformedMessageDropped ==
    (lastMsg.n > 0 /\ Malformed(lastMsg.msg)) =>
        /\ oi_cache = lastMsg.cache
        /\ callbacks = lastMsg.callbacks
        /\ lastMsg.pc = "listening"

\* an update the ingestor accepts: well-formed, with a positive value
Valid(msg) == ~Malformed(msg) /\ msg.o.v > 0

\* the cached previous values of the latest message's symbol
PreviousOf(m) == {c \in m.cache : c.symbol = Sanitized(m.msg.s)}

\* |(current - cached) / cached * 100| >= 0.1 for a cached value > 0
ClearsFloor(m) ==
    \E c \in PreviousOf(m) :
        /\ ~c.oi.nan /\ c.oi.v > 0
        /\ Abs(m.msg.o.v - c.oi.v) * 1000 >= c.oi.v

\* C21: a valid update schedules the callback iff a previous value is cached
\* for its symbol, that value is > 0 and the change is at least 0.1 percent;
\* the first valid update of a symbol schedules none.
C21_LiveUpdateIffFloorCleared ==
    (lastMsg.n > 0 /\ Valid(lastMsg.msg)) =>
        /\ callbacks = lastMsg.callbacks + (IF ClearsFloor(lastMsg) THEN 1 ELSE 0)
        /\ PreviousOf(lastMsg) = {} => callbacks = lastMsg.callbacks

\* a change of exactly 0.1 percent has scheduled the callback
C21_Witness ==
    /\ lastMsg.n > 0 /\ lastMsg.msg = Update(Number(50050))
    /\ \E c \in PreviousOf(lastMsg) : c.oi = Float(FALSE, 50000)
    /\ callbacks = lastMsg.callbacks + 1

\* C22: the value of every valid update is saved to the snapshot store,
\* whether or not the update scheduled the callback.
C22_EveryValidUpdateRecorded ==
    (lastMsg.n > 0 /\ Valid(lastMsg.msg)) =>
        [symbol |-> Sanitized(lastMsg.msg.s), oi |-> lastMsg.msg.o.v] \in recorded

\* the snapshots of a symbol, and those within the tolerance of time t
RowsOf(symbol) == {r \in history : r.symbol = symbol}
Near(symbol, t) == {r \in RowsOf(symbol) : Abs(r.timestamp - t) <= Tolerance}

\* C23: a lookup at minutes_ago > 0 returns nothing when no snapshot of the
\* symbol lies within 2 minutes of t = now - minutes_ago; otherwise it returns
\* a snapshot of that interval at minimal distance from t, the earliest one
\* among equally distant ones.
C23_NearestWithinTolerance ==
    \A k \in 1..Len(Symbols), j \in 1..Len(timeframes) :
        LET t      == now - timeframes[j].minutes
            near   == Near(Symbols[k], t)
            result == get_latest_oi(history, now, Symbols[k], timeframes[j].minutes)
        IN  IF near = {}
            THEN result = {}
            ELSE /\ result # {}
                 /\ \A r \in result :
                       /\ r \in near
                       /\ \A q \in near :
                             \/ Abs(r.timestamp - t) < Abs(q.timestamp - t)
                             \/ /\ Abs(r.timestamp - t) = Abs(q.timestamp - t)
                                /\ r.timestamp <= q.timestamp

\* C24: a lookup at minutes_ago = 0 returns the snapshot of that symbol with
\* the greatest timestamp, nothing when the symbol has none; saving never
\* changes or removes a snapshot saved before.
C24_LatestAndAppendOnly ==
    /\ [](\A k \in 1..Len(Symbols) :
            LET rows   == RowsOf(Symbols[k])
                result == get_latest_oi(history, now, Symbols[k], 0)
            IN  /\ rows = {} <=> result = {}
                /\ \A r \in result :
                      r \in rows /\ \A q \in rows : q.timestamp <= r.timestamp)
    /\ [][history \subseteq history']_vars

\* a snapshot was saved on top of older ones of two symbols, across midnight
C24_Witness ==
    \E r \in RowsOf(Symbols[1]), q \in RowsOf(Symbols[1]) :
        /\ r.timestamp = now /\ q.timestamp < now
        /\ q.timestamp \div MinutesPerDay < now \div MinutesPerDay
        /\ RowsOf(Symbols[2]) # {}
        /\ pc # "idle"

(***************************************************************************)
(* Catalog cache: CacheService.get_coins_data                              *)
(***************************************************************************)
CacheTick == 30     \* minutes between two readings of the clock

Catalogs == { <<"AAA">>, <<"AAA", "BBB">> }

\* what a request to the catalog service can end in
FetchOutcomes ==
    { [kind |-> "ok", coins |-> c] : c \in Catalogs }
    \cup { [kind |-> k, coins |-> << >>] :
             k \in {"empty", "http_error", "timeout", "request_error", "session_error"} }

\* CoinMarketCapAPI.get_listings, lines 41-56: the data on status 200, []
\* on any other status, on a timeout and on any other exception
get_listings(outcome) == IF outcome.kind = "ok" THEN outcome.coins ELSE << >>

\* Database.is_cache_fresh
is_cache_fresh(cache, clock, ttl) ==
    cache # NoCache /\ clock - cache.last_updated < ttl

\* CacheService._fetch_fresh_data: the listings; the cached catalog (or [])
\* only when an exception escapes the client (opening or closing the session)
FetchFreshData(cache, outcome) ==
    IF outcome.kind = "session_error"
    THEN cache.coins
    ELSE get_listings(outcome)

\* get_coins_data(force_refresh)
GetCoinsData ==
    /\ lastGet.n < MaxCacheTicks
    /\ \E force_refresh \in BOOLEAN, outcome \in FetchOutcomes :
          LET fresh == ~force_refresh /\ is_cache_fresh(cmc_cache, cacheClock, CACHE_TTL)
              fetched_coins == FetchFreshData(cmc_cache, outcome)
          IN  /\ cmc_cache' = IF ~fresh /\ fetched_coins # << >>
                              THEN [coins |-> fetched_coins, last_updated |-> cacheClock]
                              ELSE cmc_cache
              /\ lastGet' = [n |-> lastGet.n + 1, force_refresh |-> force_refresh,
                             outcome |-> outcome, fetched |-> ~fresh,
                             before |-> cmc_cache,
                             result |-> IF fresh THEN cmc_cache.coins ELSE fetched_coins]
    /\ UNCHANGED cacheClock
    /\ UNCHANGED <<pollVars, sanVars, mainVars, fetchVars, rlVars, wsVars, loopVars>>

\* time passes
CacheClockTick ==
    /\ cacheClock < MaxCacheTicks * CacheTick
    /\ cacheClock' = cacheClock + CacheTick
    /\ UNCHANGED <<cmc_cache, lastGet>>
    /\ UNCHANGED <<pollVars, sanVars, mainVars, fetchVars, rlVars, wsVars, loopVars>>

NextCache ==
    \/ GetCoinsData
    \/ CacheClockTick

InitCache ==
    /\ cmc_cache \in {NoCache, [coins |-> <<"AAA">>, last_updated |-> 0]}
    /\ cacheClock = 0 /\ lastGet = NoGet
    /\ InitIdlePoll /\ InitIdleSan /\ InitIdleMain /\ InitIdleFetch /\ InitIdleRl
    /\ InitIdleWs /\ InitIdleLoop

SpecCache == InitCache /\ [][NextCache]_vars

\* C25: a call whose fetch failed returns the catalog cached before, and a
\* failed or empty fetch leaves the cached catalog as it was.
C25_FetchFailureFallsBackToCache ==
    (lastGet.n > 0 /\ lastGet.fetched /\ lastGet.outcome.kind # "ok") =>
        /\ (lastGet.outcome.kind # "empty" /\ lastGet.before # NoCache)
              => lastGet.result = lastGet.before.coins
        /\ cmc_cache.coins = lastGet.before.coins

(***************************************************************************)
(* Input validation: InputValidator.sanitize_symbol                        *)
(***************************************************************************)
\* variant: no limit on the length
sanitize_symbol_NoLimit(symbol) ==
    IF symbol = NoSymbol THEN NoSymbol
    ELSE IF Sanitized(symbol) = << >> THEN NoSymbol
    ELSE Sanitized(symbol)

\* sanitize_symbol(symbol, max_length=20): None for a non-string, for an
\* empty and for an over-length result
sanitize_symbol(symbol) ==
    IF symbol = NoSymbol THEN NoSymbol
    ELSE LET sanitized == Sanitized(symbol) IN
         IF sanitized = << >> \/ Len(sanitized) > MaxSymbolLen THEN NoSymbol
         ELSE sanitized

SanChars == {"B", "b", "1", "-", "$"}

RECURSIVE SeqsUpTo(_, _)
SeqsUpTo(S, n) ==
    IF n = 0 THEN { << >> }
    ELSE LET shorter == SeqsUpTo(S, n - 1) IN
         shorter \cup { Append(q, c) : q \in shorter, c \in S }

\* arguments: every short string, strings around the length limit, and a
\* value that is not a string
SanInputs ==
    SeqsUpTo(SanChars, MaxSanLen)
    \cup { Rep("a", MaxSymbolLen), Rep("a", MaxSymbolLen + 1),
           Rep("a", MaxSymbolLen) \o <<"-", "$">>,
           <<"-">> \o Rep("B", MaxSymbolLen + 1),
           Rep("-", MaxSymbolLen + 1),
           NoSymbol }

SanitizeSymbol ==
    /\ sanOut = NotApplied
    /\ sanOut' = sanitize_symbol(sanIn)
    /\ UNCHANGED <<sanIn, sanAgain>>
    /\ UNCHANGED <<pollVars, cacheVars, mainVars, fetchVars, rlVars, wsVars, loopVars>>

SanitizeAgain ==
    /\ sanOut # NotApplied /\ sanAgain = NotApplied
    /\ sanAgain' = sanitize_symbol(sanOut)
    /\ UNCHANGED <<sanIn, sanOut>>
    /\ UNCHANGED <<pollVars, cacheVars, mainVars, fetchVars, rlVars, wsVars, loopVars>>

NextSanitize ==
    \/ SanitizeSymbol
    \/ SanitizeAgain

InitSanitize ==
    /\ sanIn \in SanInputs /\ sanOut = NotApplied /\ sanAgain = NotApplied
    /\ InitIdlePoll /\ InitIdleCache /\ InitIdleMain /\ InitIdleFetch /\ InitIdleRl
    /\ InitIdleWs /\ InitIdleLoop

SpecSanitize == InitSanitize /\ [][NextSanitize]_vars

\* the alphanumeric characters of a string, as they are
Stripped(x) == SelectSeq(x, LAMBDA c : c \in AlnumChars)

\* C26: sanitizing a sanitized result changes nothing; a result that is not
\* a rejection holds alphanumeric characters only; an argument whose
\* alphanumeric characters are none or more than 20 is rejected.
C26_SanitizeIdempotentAndTotal ==
    /\ sanAgain # NotApplied => sanAgain = sanOut
    /\ (sanOut # NotApplied /\ sanOut # NoSymbol) =>
          /\ \A k \in 1..Len(sanOut) : sanOut[k] \in AlnumChars
          /\ Len(sanOut) \in 1..20
    /\ (sanOut # NotApplied /\ sanIn # NoSymbol) =>
          (sanOut = NoSymbol <=> (Stripped(sanIn) = << >> \/ Len(Stripped(sanIn)) > 20))

\* a mixed-case string with characters to strip was sanitized twice
C26_Witness ==
    /\ sanIn = <<"b", "-", "1">>
    /\ sanOut = <<"B", "1">>
    /\ sanAgain = <<"B", "1">>

\* the snapshot of a symbol nearest to time t within the tolerance: minimal
\* distance, the earliest one among equally distant ones
Nearest(symbol, t) ==
    {r \in Near(symbol, t) :
        \A q \in Near(symbol, t) :
            \/ Abs(r.timestamp - t) < Abs(q.timestamp - t)
            \/ Abs(r.timestamp - t) = Abs(q.timestamp - t) /\ r.timestamp <= q.timestamp}

\* timeframe j qualifies for an evaluated instrument: the nearest snapshot at
\* its window is positive and the change reaches the timeframe's threshold
Qualifies(ev, j) ==
    \E r \in Nearest(ev.symbol, now - timeframes[j].minutes) :
        /\ r.open_interest > 0
        /\ Abs(ev.current - r.open_interest) * 100
              >= Get(settings, timeframes[j].key, timeframes[j].default) * r.open_interest

\* C27: the change events of an instrument evaluated in a cycle are exactly
\* one per qualifying timeframe, each timeframe on its own.
C27_OneEventPerQualifyingTimeframe ==
    pc = "check_oi" =>
        \A e \in 1..Len(evaluated) : \A j \in 1..Len(timeframes) :
            evaluated[e].outcome = "ok" =>
                Cardinality(ChangeIdx(all_alerts, evaluated[e].symbol, timeframes[j].name))
                    = IF Qualifies(evaluated[e], j) THEN 1 ELSE 0

(***************************************************************************)
(* Process start and shutdown: main() and on_shutdown                      *)
(***************************************************************************)
\* main line 98: start_polling returns or raises, the finally block begins
PollingEnds ==
    /\ mainPc = "polling"
    /\ mainPc' = "finally"
    /\ UNCHANGED <<pollVars, cacheVars, sanVars, fetchVars, rlVars, wsVars, loopVars>>

\* on_shutdown, lines 32-43: alert_service.stop() and db.close(); nothing of
\* MonitoringService or of the ingestor is called
OnShutdown ==
    /\ mainPc = "finally"
    /\ mainPc' = "shut_down"
    /\ is_running' = FALSE
    /\ UNCHANGED <<users, userAlerts, loopPc, userIdx, websocket_active, batch,
                   batchPos, sent, processed, cycleNo, db_users, ws_symbols,
                   raised, changes>>
    /\ UNCHANGED <<pollVars, cacheVars, sanVars, fetchVars, rlVars, wsVars>>

\* main lines 107-112: monitoring_task.cancel() and the await of the task
CancelMonitoringTask ==
    /\ mainPc = "shut_down"
    /\ mainPc' = "task_awaited"
    /\ loopPc' = IF loopPc = "exited" THEN "exited" ELSE "cancelled"
    /\ UNCHANGED <<users, userAlerts, userIdx, websocket_active, batch, batchPos,
                   sent, processed, cycleNo, is_running, db_users, ws_symbols,
                   raised, changes>>
    /\ UNCHANGED <<pollVars, cacheVars, sanVars, fetchVars, rlVars, wsVars>>

\* main line 114: the bot session is closed and main() returns
MainReturns ==
    /\ mainPc = "task_awaited"
    /\ mainPc' = "returned"
    /\ UNCHANGED <<pollVars, cacheVars, sanVars, fetchVars, rlVars, wsVars, loopVars>>

\* main line 121: asyncio.run cancels the tasks main() left behind and
\* closes the event loop
RunnerClosesLoop ==
    /\ mainPc = "returned"
    /\ mainPc' = "loop_closed"
    /\ UNCHANGED <<pollVars, cacheVars, sanVars, fetchVars, rlVars, wsVars, loopVars>>

\* the monitoring_loop task has ended
MonitoringTaskEnded == loopPc \in {"exited", "cancelled"}

\* the ingestor's maintenance task, created by start_websocket_mode, lives
\* until stop_websocket_mode stops the ingestor or the event loop is closed
IngestorTaskActive == websocket_active /\ mainPc # "loop_closed"

NextShutdown ==
    \/ NextLoop
    \/ UserChange
    \/ PollingEnds
    \/ OnShutdown
    \/ CancelMonitoringTask
    \/ MainReturns
    \/ RunnerClosesLoop

InitShutdown ==
    /\ db_users \in UserTables
    /\ users = << >>
    /\ userAlerts = << AlertList(1, 1, 0, 0, 0, FALSE), << >> >>
    /\ loopPc = "top" /\ userIdx = 1 /\ websocket_active = FALSE
    /\ batch = << >> /\ batchPos = 0 /\ sent = << >> /\ processed = << >>
    /\ cycleNo = 0
    /\ is_running = TRUE /\ ws_symbols = {} /\ raised = {} /\ changes = 0
    /\ mainPc = "polling"
    /\ InitIdlePoll /\ InitIdleCache /\ InitIdleSan /\ InitIdleFetch /\ InitIdleRl /\ InitIdleWs

SpecShutdown == InitShutdown /\ [][NextShutdown]_vars

RequestOutcomes ==
    { [kind |-> "ok", value |-> v] : v \in CurValues }
    \cup { [kind |-> k, value |-> NoValue] :
             k \in {"timeout", "http_500", "http_429", "http_404"} }

\* a failure worth another try: timeout, 5xx, rate-limited
Transient(outcome) == outcome.kind \in {"timeout", "http_500", "http_429"}

\* get_open_interest, lines 46-61: one request; the value on status 200, None
\* on any other status and on any exception
get_open_interest(outcome) ==
    [ requests |-> << outcome >>, waits |-> << >>,
      result |-> IF outcome.kind = "ok" THEN outcome.value ELSE NoValue ]

\* check_open_interest_changes, lines 61-65: the value is fetched once per
\* instrument; on None the loop goes on to the next instrument
FetchCurrentOi ==
    /\ Len(fetchLog) < MaxFetches
    /\ \E outcome \in RequestOutcomes :
          LET call == get_open_interest(outcome) IN
          fetchLog' = Append(fetchLog,
                [ symbol |-> Symbols[Len(fetchLog) + 1],
                  requests |-> call.requests, waits |-> call.waits,
                  skipped |-> call.result = NoValue ])
    /\ UNCHANGED <<pollVars, cacheVars, sanVars, mainVars, rlVars, wsVars, loopVars>>

NextFetch == FetchCurrentOi

InitFetch ==
    /\ fetchLog = << >>
    /\ InitIdlePoll /\ InitIdleCache /\ InitIdleSan /\ InitIdleMain /\ InitIdleRl
    /\ InitIdleWs /\ InitIdleLoop

SpecFetch == InitFetch /\ [][NextFetch]_vars

\* C29: an instrument is skipped after a transient failure only once the
\* fetch was tried again at least one more time, with waits in between that
\* grow from one to the next.
C29_TransientFetchRetried ==
    \A k \in 1..Len(fetchLog) :
        (fetchLog[k].skipped /\ Transient(fetchLog[k].requests[1])) =>
            /\ Len(fetchLog[k].requests) >= 2
            /\ Len(fetchLog[k].waits) = Len(fetchLog[k].requests) - 1
            /\ \A w \in 2..Len(fetchLog[k].waits) :
                  fetchLog[k].waits[w] > fetchLog[k].waits[w - 1]

\* C30: the liquidation events of both paths, and the change events of the
\* polling path, are built with the stored value of their threshold key, and
\* with the value of DEFAULT_USER_SETTINGS when the key is not stored.
C30_MissingKeyResolvesToDocumentedDefault ==
    LET events == all_alerts \o wsAlerts IN
    \A k \in 1..Len(events) :
        \/ /\ events[k].type = "estimated_liquidation"
           /\ events[k].threshold =
                 Get(settings, "liquidation_oi_threshold",
                     DEFAULT_USER_SETTINGS.liquidation_oi_threshold)
        \/ /\ events[k].type = "open_interest" /\ events[k].timeframe = None
        \/ /\ events[k].type = "open_interest" /\ events[k].timeframe # None
           /\ \E j \in 1..Len(timeframes) :
                 /\ timeframes[j].name = events[k].timeframe
                 /\ events[k].threshold =
                       Get(settings, timeframes[j].key,
                           DEFAULT_USER_SETTINGS[timeframes[j].key])

(***************************************************************************)
(* Request rate limiting: RateLimiter                                      *)
(***************************************************************************)
\* RateLimiter(max_calls=2, period=...): the limiter of the tests, with a
\* period of two ticks
rl_max_calls == 2
rl_period    == 2

\* dict lookup: the list of a key, [] for a key without record
RecordOf(calls, key) == IF key \in DOMAIN calls THEN calls[key] ELSE << >>

\* the dict with the list of one key set, and with one key deleted
WithRecord(calls, key, list) ==
    [k \in DOMAIN calls \cup {key} |-> IF k = key THEN list ELSE calls[k]]
WithoutRecord(calls, key) == [k \in DOMAIN calls \ {key} |-> calls[k]]

\* line 178: [t for t in self.calls[key] if now - t < self.period]
Recent(list, clock) == SelectSeq(list, LAMBDA t : clock - t < rl_period)

\* variant: the limit test lets one call more through
Allows_OneMore(list) == Len(list) <= rl_max_calls

\* line 181: len(self.calls[key]) < self.max_calls
Allows(list) == Len(list) < rl_max_calls

\* is_allowed(key)
RlIsAllowed ==
    /\ rlLast.n < MaxRlOps
    /\ \E key \in RlKeys :
          LET recent  == Recent(RecordOf(rlCalls, key), rlClock)
              granted == Allows(recent)
          IN  /\ rlCalls' = WithRecord(rlCalls, key,
                                IF granted THEN Append(recent, rlClock) ELSE recent)
              /\ rlGranted' = IF granted
                              THEN [rlGranted EXCEPT ![key] = Append(@, rlClock)]
                              ELSE rlGranted
              /\ rlLast' = [n |-> rlLast.n + 1,
                            op |-> "is_allowed", key |-> key, granted |-> granted,
                            now |-> rlClock, before |-> rlCalls,
                            after_reset |-> rlLast.op = "reset" /\ rlLast.key = key]
    /\ UNCHANGED rlClock
    /\ UNCHANGED <<pollVars, cacheVars, sanVars, mainVars, fetchVars, wsVars, loopVars>>

\* reset(key)
RlReset ==
    /\ rlLast.n < MaxRlOps
    /\ \E key \in RlKeys :
          /\ rlCalls' = WithoutRecord(rlCalls, key)
          /\ rlGranted' = [rlGranted EXCEPT ![key] = << >>]
          /\ rlLast' = [n |-> rlLast.n + 1,
                        op |-> "reset", key |-> key, granted |-> FALSE,
                        now |-> rlClock, before |-> rlCalls, after_reset |-> FALSE]
    /\ UNCHANGED rlClock
    /\ UNCHANGED <<pollVars, cacheVars, sanVars, mainVars, fetchVars, wsVars, loopVars>>

\* time passes
RlTick ==
    /\ rlClock < MaxRlTicks
    /\ rlClock' = rlClock + 1
    /\ UNCHANGED <<rlCalls, rlGranted, rlLast>>
    /\ UNCHANGED <<pollVars, cacheVars, sanVars, mainVars, fetchVars, wsVars, loopVars>>

NextRl ==
    \/ RlIsAllowed
    \/ RlReset
    \/ RlTick

InitRl ==
    /\ InitIdleRl
    /\ InitIdlePoll /\ InitIdleCache /\ InitIdleSan /\ InitIdleMain /\ InitIdleFetch
    /\ InitIdleWs /\ InitIdleLoop

SpecRl == InitRl /\ [][NextRl]_vars

\* the calls of a key granted at a time in [from, from + period)
GrantedIn(key, from) ==
    {i \in 1..Len(rlGranted[key]) :
        from <= rlGranted[key][i] /\ rlGranted[key][i] < from + rl_period}

\* C31: per key, no window of length period holds more than max_calls granted
\* calls (counted since the key's last reset) and no more than max_calls call
\* times are recorded; a denied call records nothing; a call on one key leaves
\* the records of the other keys as they were; the call after reset(key) is
\* granted.
C31_RateLimiterWindow ==
    /\ \A key \in RlKeys :
          /\ Len(RecordOf(rlCalls, key)) <= rl_max_calls
          /\ \A from \in 0..rlClock : Cardinality(GrantedIn(key, from)) <= rl_max_calls
    /\ (rlLast.op = "is_allowed" /\ ~rlLast.granted) =>
          \A i \in 1..Len(RecordOf(rlCalls, rlLast.key)) :
              \E j \in 1..Len(RecordOf(rlLast.before, rlLast.key)) :
                  RecordOf(rlCalls, rlLast.key)[i] = RecordOf(rlLast.before, rlLast.key)[j]
    /\ (rlLast.op = "is_allowed" /\ ~rlLast.granted) =>
          Len(RecordOf(rlCalls, rlLast.key)) <= Len(RecordOf(rlLast.before, rlLast.key))
    /\ rlLast.op # "none" =>
          \A key \in RlKeys \ {rlLast.key} :
              RecordOf(rlCalls, key) = RecordOf(rlLast.before, key)
    /\ (rlLast.op = "is_allowed" /\ rlLast.after_reset) => rlLast.granted

\* a key at its limit was denied, reset, and granted again
C31_Witness ==
    /\ rlLast.op = "is_allowed" /\ rlLast.after_reset /\ rlLast.granted
    /\ rlLast.n = 5
    /\ rlLast.now = 0
    /\ Len(rlGranted[rlLast.key]) = 1

(***************************************************************************)
(* Liquidation inference and the snapshot of the same cycle                *)
(***************************************************************************)
\* the rows a polling cycle itself has persisted carry the cycle's time; the
\* rows of earlier cycles are older
FromEarlierCycle(row) == row.timestamp < now

\* C32: with change alerts and liquidation inference both enabled, the
\* snapshot the liquidation inference compares an instrument's current value
\* with was recorded in an earlier cycle, never by this cycle's change
\* detection.
C32_LiquidationComparesEarlierCycle ==
    (/\ Get(settings, "enable_oi_alerts", TRUE)
     /\ Get(settings, "enable_liquidation_detection", TRUE))
    => \A k \in 1..Len(evaluated) :
          (/\ evaluated[k].phase = "liq"
           /\ evaluated[k].outcome = "ok"
           /\ IsRow(evaluated[k].lookups[1]))
          => FromEarlierCycle(evaluated[k].lookups[1])

(***************************************************************************)
(* Stopping the ingestor                                                   *)
(***************************************************************************)
\* The steps of the maintenance task that do not wait for the exchange to
\* send anything: the loop condition, the end of a sleep, the end of a
\* connection attempt (websockets.connect has its own opening timeout), and
\* the end of the iteration over a connection that has been closed.
WsFairness ==
    /\ WF_vars(WsLoopCheck)
    /\ WF_vars(WsBackoffOver)
    /\ WF_vars(WsConnectOk \/ WsConnectFails)
    /\ WF_vars(websocket = "closed" /\ (WsClosedNormally \/ WsDisconnect))

SpecWsFair == SpecWs /\ WsFairness

\* stop() has been called on an ingestor that was started
Stopped == ~running /\ wsPc # "none"

\* C33: once stop() has been called on a running ingestor, no connection is
\* opened any more, and the maintenance loop eventually ends, in whichever
\* state (connecting, listening, waiting in backoff) stop() found it.
C33_StopEndsMaintenance ==
    /\ [][Stopped => ~(websocket # "open" /\ websocket' = "open")]_vars
    /\ Stopped ~> (wsPc = "done")

(***************************************************************************)
(* Waiting before every reconnect                                          *)
(***************************************************************************)
\* the maintenance task is inside _connect_and_listen
InConnection(p) == p \in {"connecting", "listening"}

\* C34: while the ingestor is running, the end of a connection or of a
\* connection attempt (connect failure, abnormal disconnect, normal close by
\* the server) is followed by a wait of at least 5s and at most 60s before
\* the next attempt; the loop never goes straight back to connecting.
C34_WaitBeforeEveryReconnect ==
    [][(running /\ InConnection(wsPc) /\ ~InConnection(wsPc'))
       => /\ wsPc' = "backoff"
          /\ Len(waits') = Len(waits) + 1
          /\ waits'[Len(waits')].delay >= BaseDelay
          /\ waits'[Len(waits')].delay <= max_reconnect_delay]_vars

(***************************************************************************)
(* The subscription list after any sequence of calls                       *)
(***************************************************************************)
\* a sanitized symbol: lower-case, alphanumeric, not empty, at most 20 characters
IsSanitizedSymbol(x) ==
    /\ x # << >>
    /\ Len(x) <= MaxSymbolLen
    /\ \A k \in 1..Len(x) : isalnum(x[k]) /\ lower(x[k]) = x[k]

\* C35: after any sequence of start, update_symbols and stop,
\* subscribed_symbols holds sanitized symbols only, and at most max_symbols
\* of them, whether or not the ingestor was running when update_symbols was
\* called.
C35_SubscribedSymbolsSanitized ==
    /\ Len(subscribed_symbols) <= max_symbols
    /\ \A k \in 1..Len(subscribed_symbols) : IsSanitizedSymbol(subscribed_symbols[k])

(***************************************************************************)
(* The value cache follows the valid messages                              *)
(***************************************************************************)
\* the cache that holds, per symbol, the value of the most recent valid
\* message, after one more message m: a valid message replaces the entry of
\* its symbol, any other message changes nothing
LatestValid(m) ==
    IF Valid(m.msg)
    THEN (m.cache \ PreviousOf(m))
             \cup {[symbol |-> Sanitized(m.msg.s), oi |-> Float(FALSE, m.msg.o.v)]}
    ELSE m.cache

\* C36: the cache is empty before the first message, and after every message
\* it holds, for each symbol, the value of the most recent valid message and
\* nothing for a symbol that has had no valid message.
C36_CacheHoldsLatestValidValue ==
    /\ lastMsg.n = 0 => oi_cache = {}
    /\ lastMsg.n > 0 => oi_cache = LatestValid(lastMsg)

(***************************************************************************)
(* Delivery after monitoring was disabled                                  *)
(***************************************************************************)
\* the users table has a row with is_monitoring = 1 for the subscriber
MonitoringEnabled(id) == \E k \in 1..Len(db_users) : db_users[k].user_id = id

\* C37: no message is sent to a subscriber whose monitoring is disabled at
\* the time of the send, whenever in the cycle the subscriber disabled it.
C37_NoDeliveryAfterStopMonitoring ==
    [][Len(sent') > Len(sent) => MonitoringEnabled(sent'[Len(sent')].user_id)]_vars

(***************************************************************************)
(* Audit log entries of the events of a polling cycle                      *)
(***************************************************************************)
\* monitor_user has returned: its result is what monitoring_loop hands to
\* send_alerts_batch
HandedToDispatcher == IF pc = "done" THEN returned ELSE << >>

\* C38: when monitor_user returns, the audit log holds one entry for each
\* event of the result, in the order of the result, and nothing else: every
\* event handed to the dispatcher was logged once before delivery.
C38_EveryDispatchedEventAudited ==
    (pc = "done" /\ HandedToDispatcher # << >>) => alerts_table = HandedToDispatcher

(***************************************************************************)
(* The settings toggles: bot/handlers/settings.py toggle_setting           *)
(***************************************************************************)
\* the keys of the toggle buttons of the settings menu that concern alerts
\* (bot/handlers/inline.py): 'toggle_enable_oi_alerts' and
\* 'toggle_enable_liquidation_alerts'
ToggleKeys == {"enable_oi_alerts", "enable_liquidation_alerts"}

\* lines 366-367: current = settings.get(key, True); settings[key] = not current
toggle_setting(s, key) ==
    [k \in DOMAIN s \cup {key} |-> IF k = key THEN ~Get(s, key, TRUE) ELSE s[k]]

\* the subscriber presses a toggle button between cycles and callbacks; the
\* new settings are stored (update_user_settings)
ToggleSetting ==
    /\ pc = "idle"
    /\ \E key \in ToggleKeys : settings' = toggle_setting(settings, key)
    /\ UNCHANGED <<now, history, coins, available_symbols, pc, idx, all_alerts,
                   returned, alerts_table, evaluated, faults, wsCount, wsAlerts,
                   dispatched>>
    /\ UNCHANGED <<wsVars, loopVars, svcVars>>

NextToggle ==
    \/ NextDetect
    \/ ToggleSetting

\* the states a cycle or a callback can start from, a quarter of an hour
\* after midnight
InitToggle ==
    /\ InitDetect
    /\ now = MinutesPerDay + 14

SpecToggle == InitToggle /\ [][NextToggle]_vars

\* what the settings screen shows as switched off
LiquidationAlertsOff == ~Get(settings, "enable_liquidation_alerts", TRUE)
ChangeAlertsOff      == ~Get(settings, "enable_oi_alerts", TRUE)

\* the step adds no event of the type to the cycle's events, and a streaming
\* callback of the step builds none
NoNewEvent(type) ==
    /\ Len(TypeFilter(all_alerts', type)) <= Len(TypeFilter(all_alerts, type))
    /\ wsCount' > wsCount => TypeFilter(wsAlerts', type) = << >>

\* C39: while liquidation alerts are switched off by the toggle, no polling
\* cycle and no streaming callback produces an inferred-liquidation event;
\* while change alerts are switched off, none produces a change event.
C39_ToggleOffSilencesEvents ==
    [][/\ LiquidationAlertsOff => NoNewEvent("estimated_liquidation")
       /\ ChangeAlertsOff => NoNewEvent("open_interest")]_vars

====
